---- MODULE Spec2Model ----
(***************************************************************************)
(* Verification model of the batch pipeline of gemini-mcp                  *)
(* (src/src/index.ts and the handler listings under src/unnamed).          *)
(*                                                                         *)
(* One behaviour of the model is one tool invocation: the variable "tool"  *)
(* holds the operation that was dispatched, and only the steps of that     *)
(* operation are enabled.  The remote batch service (the job state) is an  *)
(* environment that moves on its own.                                      *)
(***************************************************************************)
EXTENDS Integers, Sequences, FiniteSets, TLC

VARIABLES
  tool,          \* the operation this run executes
  \* ---- remote batch service and wall clock
  jobState,      \* state of the job held by the remote service
  now,           \* Date.now() in milliseconds
  \* ---- pollBatchUntilComplete
  pollPc,        \* "idle" | "fetching" | "sleeping" | "returned" | "timeout" | "fetchError"
  startTime,     \* const startTime = Date.now()
  intervalSeconds,
  maxWaitMs,
  fetchCalls,    \* number of batches.get calls issued
  fetched,       \* sequence of the states the status fetches returned
  pollResult,    \* the job returned by the poller, or NoJob
  cancelRequested, \* batch_cancel has been called for the job
  \* ---- ingestion (batch_ingest_content, batch_ingest_embeddings)
  srcExt,        \* extension of the source file
  srcContent,    \* lines of the source file
  taskTypeArg,   \* args.taskType, or NoTaskType
  outFile,       \* lines of the file at the output path, or NoFile
  ingestPc,      \* "start" | "converted" | "validated" | "invalidParams" | "convertThrew" | "validateThrew" | "checked"
  report,        \* the ContentIngestionReport, or NoReport
  validation,    \* the result of validateJSONL, or NoReport
  \* ---- job submission (batch_create, batch_create_embeddings)
  requestsArg,   \* args.requests: "absent", "empty" ([]) or "some"
  fileArg,       \* args.inputFileUri: "absent" or a file handle
  createPc,      \* "start" | "invalidParams" | "created" | "createError"
  sent,          \* the parameter object passed to the remote service, or NoEnvelope
  jobsCreated,   \* number of jobs the remote service has created
  \* ---- one-call workflows (batch_process, batch_process_embeddings)
  flowPc,        \* "start" | "convert" | "upload" | "submit" | "returned" | "failed"
  stagesRun,     \* the stages started so far, in order
  flowError,     \* the stage whose error the caller receives, or "none"
  stageFailures, \* the stages that have failed, in order
  \* ---- downloadAndParseBatchResults (batch_download_results)
  dest,          \* batchJob.dest: the three result fields, each absent or present
  remoteFile,    \* lines of the result file held by the remote service
  downloadPc,    \* "start" | "returned" | "threw: ..." (the message of the exception)
  results,       \* [items |-> the parsed results returned to the caller], or NoResults
  resultsFile,   \* the file written in the output directory, or NoResultsFile
  \* ---- getTaskTypeRecommendation (batch_query_task_type)
  context,       \* args.context: the set of words of the text
  samples,       \* args.sampleContent
  recommendation, \* the returned { taskType, confidence }, or NoRecommendation
  \* ---- analyzeContentStructure
  descriptors,   \* the descriptors returned by the calls made so far, in order
  \* ---- upload_file: uploadFileWithRetry, waitForFileProcessing
  filePathArg,   \* args.filePath: "absent" or a path
  upPc,          \* "start" | "attempting" | "retrySleep" | "waitCheck" | "waitSleep" | "waitGet"
                 \* | "success" | "error" | "invalidParams"
  upNow,         \* Date.now() in milliseconds
  attempt,       \* the loop variable of uploadFileWithRetry
  attemptsMade,  \* number of genAI.files.upload calls issued
  retryWaits,    \* the delays requested between attempts, in order
  lastError,     \* the attempt whose error lastError holds, 0 when none
  upError,       \* the error of the tool result: "none", "upload", "timeout", "failed"
  raisedAttempt, \* the attempt whose error uploadFileWithRetry threw, 0 when none
  remoteState,   \* state of the file on the remote service, "none" before the upload
  observedState, \* processedFile.state, "none" before the upload
  waitStart,     \* startTime of waitForFileProcessing
  getCalls,      \* number of genAI.files.get calls issued by the wait
  \* ---- the local file caches
  uploadedFiles, \* keys of this.uploadedFiles
  fileObjects,   \* keys of this.fileObjects
  \* ---- a session of file tools ending in cleanup_all_files
  remoteFiles,   \* the files the remote service holds
  opsDone,       \* number of file tools completed before the cleanup
  cleanupPc,     \* "idle" | "running" | "done"
  pending,       \* entries of uploadedFiles the cleanup loop has not visited yet
  deletedFiles,  \* deletedFiles of handleCleanupAllFiles
  failedDeletes, \* failedDeletes of handleCleanupAllFiles
  \* ---- upload_multiple_files
  filePathsLen,     \* args.filePaths.length; the paths are 1 .. filePathsLen
  maxConcurrentArg, \* args.maxConcurrent, 0 also standing for an absent one
  maxConcurrent,    \* the constant maxConcurrent of handleMultipleUpload
  loopI,            \* the loop variable i
  mPc,              \* "start" | "group" | "sleep" | "done" | "invalidParams"
  inFlight,         \* paths of the current group whose upload has not settled
  successful,       \* result.successful, as paths
  failed,           \* result.failed, as paths
  summary           \* totalRequested, successfulUploads, failedUploads of the result

pollVars == <<jobState, now, pollPc, startTime, intervalSeconds, maxWaitMs, fetchCalls, fetched, pollResult, cancelRequested>>
ingestVars == <<srcExt, srcContent, taskTypeArg, outFile, ingestPc, report, validation>>
createVars == <<requestsArg, fileArg, createPc, sent, jobsCreated>>
flowVars == <<flowPc, stagesRun, flowError, stageFailures>>
downloadVars == <<dest, remoteFile, downloadPc, results, resultsFile>>
adviceVars == <<context, samples, recommendation>>
analyzeVars == <<descriptors>>
uploadVars == <<filePathArg, upPc, upNow, attempt, attemptsMade, retryWaits, lastError, upError,
                raisedAttempt, remoteState, observedState, waitStart, getCalls>>
cacheVars == <<uploadedFiles, fileObjects>>
sessionVars == <<remoteFiles, opsDone, cleanupPc, pending, deletedFiles, failedDeletes>>
multiVars == <<filePathsLen, maxConcurrentArg, maxConcurrent, loopI, mPc, inFlight, successful,
               failed, summary>>
vars == <<tool, pollVars, ingestVars, createVars, flowVars, downloadVars, adviceVars, analyzeVars, uploadVars, cacheVars, sessionVars, multiVars>>

-----------------------------------------------------------------------------
(* Bounds of the model *)

TimeStepMs == 500          \* granularity of the modelled clock
MaxWaitSteps == 4          \* maxWaitMs ranges over 0 .. MaxWaitSteps * TimeStepMs
MaxIntervalSeconds == 2    \* intervalSeconds ranges over 1 .. MaxIntervalSeconds
MaxLatencySteps == 1       \* a status fetch takes 0 .. MaxLatencySteps time steps
MaxJitterSteps == 1        \* a timer fires 0 .. MaxJitterSteps time steps late
MaxLines == 3              \* a source file has 1 .. MaxLines lines
MaxResponses == 2          \* a job carries 0 .. MaxResponses inline responses
MaxWords == 2              \* a context holds 0 .. MaxWords words
MaxAnalyses == 2      \* the detector is run 0 .. MaxAnalyses times on a file
MaxFiles == 3         \* upload_multiple_files is given 0 .. MaxFiles paths
MaxBelowZero == 4     \* the loop index of upload_multiple_files is followed down to -MaxBelowZero
MaxOps == 3           \* file tools completed before cleanup_all_files is called

-----------------------------------------------------------------------------
(* Batch job states: enum BatchJobState *)

JOB_STATE_PENDING == "JOB_STATE_PENDING"
JOB_STATE_RUNNING == "JOB_STATE_RUNNING"
JOB_STATE_SUCCEEDED == "JOB_STATE_SUCCEEDED"
JOB_STATE_FAILED == "JOB_STATE_FAILED"
JOB_STATE_CANCELLED == "JOB_STATE_CANCELLED"
JOB_STATE_EXPIRED == "JOB_STATE_EXPIRED"

BatchJobState ==
  {JOB_STATE_PENDING, JOB_STATE_RUNNING, JOB_STATE_SUCCEEDED,
   JOB_STATE_FAILED, JOB_STATE_CANCELLED, JOB_STATE_EXPIRED}

NoJob == "none"

(* const completedStates = new Set([...]) in pollBatchUntilComplete *)
completedStatesNoSucceeded ==
  {JOB_STATE_FAILED, JOB_STATE_CANCELLED, JOB_STATE_EXPIRED}

completedStatesNoCancelled ==
  {JOB_STATE_SUCCEEDED, JOB_STATE_FAILED, JOB_STATE_EXPIRED}

completedStatesSucceededOrFailed ==
  {JOB_STATE_SUCCEEDED, JOB_STATE_FAILED}

completedStates ==
  {JOB_STATE_SUCCEEDED, JOB_STATE_FAILED, JOB_STATE_CANCELLED, JOB_STATE_EXPIRED}

(* sleep(intervalSeconds * 1000) *)
MsPerSecond == 1000

(* if (Date.now() - startTime > maxWaitMs) *)
DeadlineElapsedInclusive(t, start, maxWait) == t - start >= maxWait

DeadlineElapsed(t, start, maxWait) == t - start > maxWait

-----------------------------------------------------------------------------
(* Strings and JSON values.                                                 *)
(*                                                                          *)
(* A string is either raw text that is not a JSON document, the text        *)
(* `request-${n}`, or the serialization of a JSON value.  A JSON value is a *)
(* tagged record.  A file content is kept as the sequence of its lines,     *)
(* that is as content.split('\n').                                          *)

Raw(s) == [k |-> "raw", s |-> s]
RequestKey(n) == [k |-> "key", n |-> n]            \* `request-${i + 1}`

JUndefined == [t |-> "undefined"]
JNull == [t |-> "null"]
JNum(n) == [t |-> "num", n |-> n]
JStr(s) == [t |-> "str", s |-> s]
JArr(items) == [t |-> "arr", items |-> items]
JObj(fields) == [t |-> "obj", f |-> fields]

(* JSON.stringify(v): one line of text, never containing a newline *)
JSONstringify(v) == [k |-> "json", v |-> v]

(* JSON.parse(s): throws unless s is a JSON document *)
JSONparseThrows(s) == s.k # "json"
JSONparse(s) == s.v

(* l.trim() is the empty string *)
TrimIsEmpty(l) == l.k = "raw" /\ l.s \in {"", " "}

(* JavaScript truthiness of a value *)
Truthy(v) ==
  /\ v.t \notin {"undefined", "null"}
  /\ ~(v.t = "num" /\ v.n = 0)
  /\ ~(v.t = "str" /\ v.s = Raw(""))

(* v.name for a v that is neither null nor undefined *)
Prop(v, name) ==
  IF v.t = "obj" /\ name \in DOMAIN v.f THEN v.f[name] ELSE JUndefined

(* content.split('\n').filter(l => l.trim()) *)
NonBlankLines(content) == SelectSeq(content, LAMBDA l : ~TrimIsEmpty(l))

(* lines.join('\n'), kept as the split of the joined text: the join of no   *)
(* line is the empty string, whose split is one empty line.                 *)
JoinLines(lines) == IF lines = <<>> THEN <<Raw("")>> ELSE lines

(* JSON.parse(content) of a whole file: surrounding blank lines are         *)
(* whitespace; anything else next to the document is a syntax error.        *)
ContentParseThrows(content) ==
  \/ Len(NonBlankLines(content)) # 1
  \/ JSONparseThrows(NonBlankLines(content)[1])

ContentParse(content) == JSONparse(NonBlankLines(content)[1])

-----------------------------------------------------------------------------
(* analyzeContentStructure: the format is chosen by the extension *)

DetectFormat(ext) ==
  IF ext \in {".jsonl", ".ndjson"} THEN "jsonl"
  ELSE IF ext = ".json" THEN "json"
  ELSE IF ext = ".csv" THEN "csv"
  ELSE IF ext \in {".txt", ".md"} THEN "text"
  ELSE IF ext = ".xml" THEN "xml"
  ELSE "unknown"

(* path.extname(filePath).toLowerCase() *)
ExtToLowerCase(ext) ==
  IF ext = ".JSON" THEN ".json"
  ELSE IF ext = ".Csv" THEN ".csv"
  ELSE ext

(* Object.keys(parsed), which throws on null *)
IndexNames == <<"0", "1", "2", "3">>

ObjectKeysThrows(v) == v.t \in {"null", "undefined"}

ObjectKeys(v) ==
  IF v.t = "obj" THEN DOMAIN v.f
  ELSE IF v.t = "arr" THEN {IndexNames[i] : i \in 1..Len(v.items)}
  ELSE {}

(* The whole function: the descriptor { format, structure, complexity } *)
analyzeContentStructureByContent(rawExt, content) ==
  LET ext == ExtToLowerCase(rawExt) IN
    IF ~ContentParseThrows(content) /\ ~ObjectKeysThrows(ContentParse(content)) THEN
      [format |-> "json",
       structure |-> [isArray |-> ContentParse(content).t = "arr",
                      keys |-> ObjectKeys(ContentParse(content))],
       complexity |-> "simple"]
    ELSE
      [format |-> DetectFormat(ext), structure |-> [empty |-> TRUE], complexity |-> "complex"]

analyzeContentStructure(rawExt, content) ==
  LET ext == ExtToLowerCase(rawExt) IN
    IF ext \in {".jsonl", ".ndjson"} THEN
      [format |-> "jsonl",
       structure |-> [lineCount |-> Len(NonBlankLines(content))],
       complexity |-> "simple"]
    ELSE IF ext = ".json" THEN
      IF ContentParseThrows(content) \/ ObjectKeysThrows(ContentParse(content))
        THEN [format |-> "json", structure |-> [empty |-> TRUE], complexity |-> "complex"]
        ELSE [format |-> "json",
              structure |-> [isArray |-> ContentParse(content).t = "arr",
                             keys |-> ObjectKeys(ContentParse(content))],
              complexity |-> "simple"]
    ELSE IF ext = ".csv" THEN
      [format |-> "csv",
       structure |-> [rowCount |-> Len(content), hasHeader |-> TRUE],
       complexity |-> "simple"]
    ELSE IF ext \in {".txt", ".md"} THEN
      [format |-> "text", structure |-> [lineCount |-> Len(content)], complexity |-> "simple"]
    ELSE IF ext = ".xml" THEN
      [format |-> "xml", structure |-> [empty |-> TRUE], complexity |-> "complex"]
    ELSE
      [format |-> "unknown", structure |-> [empty |-> TRUE], complexity |-> "simple"]

(* One call of the detector on the source file *)
Analyze ==
  /\ tool = "analyzeContentStructure"
  /\ Len(descriptors) < MaxAnalyses
  /\ descriptors' = Append(descriptors, analyzeContentStructure(srcExt, srcContent))
  /\ UNCHANGED tool
  /\ UNCHANGED <<pollVars, ingestVars, createVars, flowVars, downloadVars, adviceVars, uploadVars, cacheVars, sessionVars, multiVars>>

(* fs.readFile rejects: the I/O error is raised to the caller *)
AnalyzeReadReject ==
  /\ tool = "analyzeContentStructure"
  /\ Len(descriptors) < MaxAnalyses
  /\ descriptors' = Append(descriptors, [format |-> "threw: I/O error"])
  /\ UNCHANGED tool
  /\ UNCHANGED <<pollVars, ingestVars, createVars, flowVars, downloadVars, adviceVars, uploadVars, cacheVars, sessionVars, multiVars>>

-----------------------------------------------------------------------------
(* convertToJSONL *)

(* { key: `request-${i + 1}`, request: { contents: [{ parts: [{ text }] }] } } *)
ContentRecord(n, text) ==
  JSONstringify(JObj([key |-> JStr(RequestKey(n)),
                      request |-> JObj([contents |->
                        JArr(<<JObj([parts |-> JArr(<<JObj([text |-> JStr(text)])>>)])>>)])]))

(* typeof item === 'string' ? item : JSON.stringify(item) *)
ItemTextAlwaysStringify(item) == JSONstringify(item)

ItemText(item) == IF item.t = "str" THEN item.s ELSE JSONstringify(item)

(* The lines built by the switch, for a format the switch converts *)
ConvertedLinesKeepHeader(content, format) ==
  IF format = "jsonl" THEN NonBlankLines(content)
  ELSE IF format = "json" THEN
    LET parsed == ContentParse(content) IN
      IF parsed.t = "arr"
        THEN [i \in 1..Len(parsed.items) |-> ContentRecord(i, ItemText(parsed.items[i]))]
        ELSE <<ContentRecord(1, JSONstringify(parsed))>>
  ELSE
    LET textLines == NonBlankLines(content) IN
      [i \in 1..Len(textLines) |-> ContentRecord(i, textLines[i])]

ConvertedLinesNumberedBySourceLine(content, format) ==
  IF format = "jsonl" THEN NonBlankLines(content)
  ELSE IF format = "json" THEN
    LET parsed == ContentParse(content) IN
      IF parsed.t = "arr"
        THEN [i \in 1..Len(parsed.items) |-> ContentRecord(i, ItemText(parsed.items[i]))]
        ELSE <<ContentRecord(1, JSONstringify(parsed))>>
  ELSE
    LET numbered == [i \in 1..Len(content) |-> [n |-> i, l |-> content[i]]]
        kept == SelectSeq(numbered, LAMBDA e : ~TrimIsEmpty(e.l))
        rows == IF format = "csv" /\ kept # <<>> THEN Tail(kept) ELSE kept
    IN [i \in 1..Len(rows) |-> ContentRecord(rows[i].n, rows[i].l)]

ConvertedLines(content, format) ==
  IF format = "jsonl" THEN NonBlankLines(content)
  ELSE IF format = "json" THEN
    LET parsed == ContentParse(content) IN
      IF parsed.t = "arr"
        THEN [i \in 1..Len(parsed.items) |-> ContentRecord(i, ItemText(parsed.items[i]))]
        ELSE <<ContentRecord(1, JSONstringify(parsed))>>
  ELSE IF format = "csv" THEN
    LET lines == NonBlankLines(content) IN
      [i \in 1..(Len(lines) - 1) |-> ContentRecord(i, lines[i + 1])]
  ELSE \* "text"
    LET textLines == NonBlankLines(content) IN
      [i \in 1..Len(textLines) |-> ContentRecord(i, textLines[i])]

(* The whole function: the report, and the output file after the call.      *)
(* writeOk says whether fs.writeFile succeeds; oldFile is the output path   *)
(* before the call.                                                         *)
convertToJSONLNoDefaultCase(content, format, oldFile, writeOk) ==
  IF format = "json" /\ ContentParseThrows(content) THEN
    [sourceFormat |-> format, totalRequests |-> 0, validationPassed |-> FALSE,
     errors |-> <<"Conversion error">>, file |-> oldFile]
  ELSE
    LET jsonlLines == ConvertedLines(content, format) IN
      IF writeOk
        THEN [sourceFormat |-> format, totalRequests |-> Len(jsonlLines),
              validationPassed |-> TRUE, errors |-> <<>>,
              file |-> JoinLines(jsonlLines)]
        ELSE [sourceFormat |-> format, totalRequests |-> Len(jsonlLines),
              validationPassed |-> FALSE, errors |-> <<"Conversion error">>,
              file |-> oldFile]

convertToJSONLWriteInFinally(content, format, oldFile, writeOk) ==
  IF format \notin {"jsonl", "json", "csv", "text"} THEN
    [sourceFormat |-> format, totalRequests |-> 0, validationPassed |-> FALSE,
     errors |-> <<"Unsupported format">>, file |-> oldFile]
  ELSE IF format = "json" /\ ContentParseThrows(content) THEN
    [sourceFormat |-> format, totalRequests |-> 0, validationPassed |-> FALSE,
     errors |-> <<"Conversion error">>, file |-> JoinLines(<<>>)]
  ELSE
    LET jsonlLines == ConvertedLines(content, format) IN
      IF writeOk
        THEN [sourceFormat |-> format, totalRequests |-> Len(jsonlLines),
              validationPassed |-> TRUE, errors |-> <<>>,
              file |-> JoinLines(jsonlLines)]
        ELSE [sourceFormat |-> format, totalRequests |-> Len(jsonlLines),
              validationPassed |-> FALSE, errors |-> <<"Conversion error">>,
              file |-> oldFile]

convertToJSONL(content, format, oldFile, writeOk) ==
  IF format \notin {"jsonl", "json", "csv", "text"} THEN
    [sourceFormat |-> format, totalRequests |-> 0, validationPassed |-> FALSE,
     errors |-> <<"Unsupported format">>, file |-> oldFile]
  ELSE IF format = "json" /\ ContentParseThrows(content) THEN
    [sourceFormat |-> format, totalRequests |-> 0, validationPassed |-> FALSE,
     errors |-> <<"Conversion error">>, file |-> oldFile]
  ELSE
    LET jsonlLines == ConvertedLines(content, format) IN
      IF writeOk
        THEN [sourceFormat |-> format, totalRequests |-> Len(jsonlLines),
              validationPassed |-> TRUE, errors |-> <<>>,
              file |-> JoinLines(jsonlLines)]
        ELSE [sourceFormat |-> format, totalRequests |-> Len(jsonlLines),
              validationPassed |-> FALSE, errors |-> <<"Conversion error">>,
              file |-> oldFile]

-----------------------------------------------------------------------------
(* validateJSONL *)

(* The body of lines.forEach: what one line adds to errors *)
LineCheckBothSchemas(line) ==
  IF JSONparseThrows(line) THEN "invalid JSON"
  ELSE LET parsed == JSONparse(line) IN
    IF parsed.t \in {"null", "undefined"} THEN "invalid JSON"
    ELSE IF \/ ~Truthy(Prop(parsed, "request"))
            \/ (/\ ~Truthy(Prop(Prop(parsed, "request"), "contents"))
                /\ ~Truthy(Prop(Prop(parsed, "request"), "content")))
      THEN "missing required 'request.contents' field"
      ELSE "ok"

LineCheck(line) ==
  IF JSONparseThrows(line) THEN "invalid JSON"
  ELSE LET parsed == JSONparse(line) IN
    IF parsed.t \in {"null", "undefined"} THEN "invalid JSON"   \* parsed.request throws
    ELSE IF \/ ~Truthy(Prop(parsed, "request"))
            \/ ~Truthy(Prop(Prop(parsed, "request"), "contents"))
      THEN "missing required 'request.contents' field"
      ELSE "ok"

validateJSONL(content) ==
  LET lines == NonBlankLines(content)
      checks == [i \in 1..Len(lines) |-> [line |-> i, message |-> LineCheck(lines[i])]]
      errors == SelectSeq(checks, LAMBDA e : e.message # "ok")
  IN [valid |-> errors = <<>>, errors |-> errors, requestCount |-> Len(lines)]

-----------------------------------------------------------------------------
(* The remote service: a job moves PENDING -> RUNNING -> terminal, or is    *)
(* ended from either non-terminal state; a terminal job never changes.      *)

RemoteSuccessors(s) ==
  IF s = JOB_STATE_PENDING
    THEN {JOB_STATE_RUNNING, JOB_STATE_FAILED, JOB_STATE_CANCELLED, JOB_STATE_EXPIRED}
  ELSE IF s = JOB_STATE_RUNNING
    THEN {JOB_STATE_SUCCEEDED, JOB_STATE_FAILED, JOB_STATE_CANCELLED, JOB_STATE_EXPIRED}
  ELSE {}

RemoteAdvance ==
  /\ tool = "batch_get_status"
  /\ pollPc \in {"fetching", "sleeping"}
  /\ \E s \in RemoteSuccessors(jobState) : jobState' = s
  /\ UNCHANGED <<tool, now, pollPc, startTime, intervalSeconds, maxWaitMs, fetchCalls, fetched, pollResult, cancelRequested>>
  /\ UNCHANGED <<ingestVars, createVars, flowVars, downloadVars, adviceVars, analyzeVars, uploadVars, cacheVars, sessionVars, multiVars>>

(* batch_cancel: genAI.batches.cancel is sent for the job while the poll    *)
(* loop of another call is in flight.  The loop has only local variables:   *)
(* the request reaches the remote service and nothing else.                 *)
BatchCancel ==
  /\ tool = "batch_get_status"
  /\ pollPc \in {"fetching", "sleeping"}
  /\ ~cancelRequested
  /\ cancelRequested' = TRUE
  /\ UNCHANGED <<tool, jobState, now, pollPc, startTime, intervalSeconds, maxWaitMs, fetchCalls, fetched, pollResult>>
  /\ UNCHANGED <<ingestVars, createVars, flowVars, downloadVars, adviceVars, analyzeVars, uploadVars, cacheVars, sessionVars, multiVars>>

-----------------------------------------------------------------------------
(* pollBatchUntilComplete(batchName, intervalSeconds, maxWaitMs) *)

PollStart ==
  /\ tool = "batch_get_status"
  /\ pollPc = "idle"
  /\ \E i \in 1..MaxIntervalSeconds, w \in 0..MaxWaitSteps :
       /\ intervalSeconds' = i
       /\ maxWaitMs' = w * TimeStepMs
  /\ startTime' = now
  /\ pollPc' = "fetching"
  /\ fetchCalls' = fetchCalls + 1
  /\ UNCHANGED <<tool, jobState, now, fetched, pollResult, cancelRequested>>
  /\ UNCHANGED <<ingestVars, createVars, flowVars, downloadVars, adviceVars, analyzeVars, uploadVars, cacheVars, sessionVars, multiVars>>

FetchResolveDeadlineFirst ==
  /\ tool = "batch_get_status"
  /\ pollPc = "fetching"
  /\ \E d \in 0..MaxLatencySteps :
       /\ now' = now + d * TimeStepMs
       /\ fetched' = Append(fetched, jobState)
       /\ IF DeadlineElapsed(now', startTime, maxWaitMs)
            THEN /\ pollPc' = "timeout"
                 /\ pollResult' = pollResult
            ELSE IF jobState \in completedStates
              THEN /\ pollPc' = "returned"
                   /\ pollResult' = jobState
              ELSE /\ pollPc' = "sleeping"
                   /\ pollResult' = pollResult
  /\ UNCHANGED <<tool, jobState, startTime, intervalSeconds, maxWaitMs, fetchCalls, cancelRequested>>
  /\ UNCHANGED <<ingestVars, createVars, flowVars, downloadVars, adviceVars, analyzeVars, uploadVars, cacheVars, sessionVars, multiVars>>

(* One turn of the loop body from the resolution of batches.get to the next *)
(* await: the completed-state test, then the deadline test, then sleep.     *)
FetchResolve ==
  /\ tool = "batch_get_status"
  /\ pollPc = "fetching"
  /\ \E d \in 0..MaxLatencySteps :
       /\ now' = now + d * TimeStepMs
       /\ fetched' = Append(fetched, jobState)
       /\ IF jobState \in completedStates
            THEN /\ pollPc' = "returned"
                 /\ pollResult' = jobState
            ELSE IF DeadlineElapsed(now', startTime, maxWaitMs)
              THEN /\ pollPc' = "timeout"
                   /\ pollResult' = pollResult
              ELSE /\ pollPc' = "sleeping"
                   /\ pollResult' = pollResult
  /\ UNCHANGED <<tool, jobState, startTime, intervalSeconds, maxWaitMs, fetchCalls, cancelRequested>>
  /\ UNCHANGED <<ingestVars, createVars, flowVars, downloadVars, adviceVars, analyzeVars, uploadVars, cacheVars, sessionVars, multiVars>>

FetchRejectSwallowed ==
  /\ tool = "batch_get_status"
  /\ pollPc = "fetching"
  /\ \E d \in 0..MaxLatencySteps : now' = now + d * TimeStepMs
  /\ pollPc' = "sleeping"
  /\ UNCHANGED <<tool, jobState, startTime, intervalSeconds, maxWaitMs, fetchCalls, fetched, pollResult, cancelRequested>>
  /\ UNCHANGED <<ingestVars, createVars, flowVars, downloadVars, adviceVars, analyzeVars, uploadVars, cacheVars, sessionVars, multiVars>>

(* batches.get rejects: the exception leaves the loop and the function.     *)
FetchReject ==
  /\ tool = "batch_get_status"
  /\ pollPc = "fetching"
  /\ \E d \in 0..MaxLatencySteps : now' = now + d * TimeStepMs
  /\ pollPc' = "fetchError"
  /\ UNCHANGED <<tool, jobState, startTime, intervalSeconds, maxWaitMs, fetchCalls, fetched, pollResult, cancelRequested>>
  /\ UNCHANGED <<ingestVars, createVars, flowVars, downloadVars, adviceVars, analyzeVars, uploadVars, cacheVars, sessionVars, multiVars>>

(* await this.sleep(intervalSeconds * 1000): the timer fires at or after    *)
(* the requested delay.                                                     *)
SleepResolve ==
  /\ tool = "batch_get_status"
  /\ pollPc = "sleeping"
  /\ \E j \in 0..MaxJitterSteps :
       now' = now + intervalSeconds * MsPerSecond + j * TimeStepMs
  /\ pollPc' = "fetching"
  /\ fetchCalls' = fetchCalls + 1
  /\ UNCHANGED <<tool, jobState, startTime, intervalSeconds, maxWaitMs, fetched, pollResult, cancelRequested>>
  /\ UNCHANGED <<ingestVars, createVars, flowVars, downloadVars, adviceVars, analyzeVars, uploadVars, cacheVars, sessionVars, multiVars>>

-----------------------------------------------------------------------------
(* Embedding ingestion.  convertToJSONL only builds content-schema records; *)
(* the embedding variant wraps the same text in                             *)
(* { content: { parts: [{ text }] }, task_type }.                           *)

NoTaskType == "none"
NoFile == <<>>
NoReport == [none |-> TRUE]

(* promptForTaskType: logs the choices and returns the default *)
promptForTaskType == "RETRIEVAL_DOCUMENT"

EmbeddingRecord(n, text, taskType) ==
  JSONstringify(JObj([key |-> JStr(RequestKey(n)),
                      request |-> JObj([content |-> JObj([parts |-> JArr(<<JObj([text |-> JStr(text)])>>)]),
                                        task_type |-> JStr(Raw(taskType))])]))

ConvertedEmbeddingLines(content, format, taskType) ==
  IF format = "jsonl" THEN NonBlankLines(content)
  ELSE IF format = "json" THEN
    LET parsed == ContentParse(content) IN
      IF parsed.t = "arr"
        THEN [i \in 1..Len(parsed.items) |-> EmbeddingRecord(i, ItemText(parsed.items[i]), taskType)]
        ELSE <<EmbeddingRecord(1, JSONstringify(parsed), taskType)>>
  ELSE IF format = "csv" THEN
    LET lines == NonBlankLines(content) IN
      [i \in 1..(Len(lines) - 1) |-> EmbeddingRecord(i, lines[i + 1], taskType)]
  ELSE
    LET textLines == NonBlankLines(content) IN
      [i \in 1..Len(textLines) |-> EmbeddingRecord(i, textLines[i], taskType)]

convertToJSONLEmbeddings(content, format, taskType, oldFile, writeOk) ==
  IF format \notin {"jsonl", "json", "csv", "text"} THEN
    [sourceFormat |-> format, totalRequests |-> 0, validationPassed |-> FALSE,
     errors |-> <<"Unsupported format">>, file |-> oldFile]
  ELSE IF format = "json" /\ ContentParseThrows(content) THEN
    [sourceFormat |-> format, totalRequests |-> 0, validationPassed |-> FALSE,
     errors |-> <<"Conversion error">>, file |-> oldFile]
  ELSE
    LET jsonlLines == ConvertedEmbeddingLines(content, format, taskType) IN
      IF writeOk
        THEN [sourceFormat |-> format, totalRequests |-> Len(jsonlLines),
              validationPassed |-> TRUE, errors |-> <<>>,
              file |-> JoinLines(jsonlLines)]
        ELSE [sourceFormat |-> format, totalRequests |-> Len(jsonlLines),
              validationPassed |-> FALSE, errors |-> <<"Conversion error">>,
              file |-> oldFile]

(* The report without the file it left behind *)
ReportOf(r) ==
  [sourceFormat |-> r.sourceFormat, totalRequests |-> r.totalRequests,
   validationPassed |-> r.validationPassed, errors |-> r.errors]

(* batch_ingest_embeddings refuses a call without taskType *)
TaskTypeNeverMissing(arg) == FALSE

TaskTypeMissing(arg) == arg = NoTaskType

-----------------------------------------------------------------------------
(* The ingestion tools: detect the format, convert, validate the output *)

IngestConvert ==
  /\ tool = "batch_ingest_content"
  /\ ingestPc = "start"
  /\ \E writeOk \in BOOLEAN :
       LET r == convertToJSONL(srcContent, DetectFormat(srcExt), outFile, writeOk) IN
         /\ report' = ReportOf(r)
         /\ outFile' = r.file
  /\ ingestPc' = "converted"
  /\ UNCHANGED <<tool, srcExt, srcContent, taskTypeArg, validation>>
  /\ UNCHANGED <<pollVars, createVars, flowVars, downloadVars, adviceVars, analyzeVars, uploadVars, cacheVars, sessionVars, multiVars>>

EmbeddingIngestReject ==
  /\ tool = "batch_ingest_embeddings"
  /\ ingestPc = "start"
  /\ TaskTypeMissing(taskTypeArg)
  /\ ingestPc' = "invalidParams"
  /\ UNCHANGED <<tool, srcExt, srcContent, taskTypeArg, outFile, report, validation>>
  /\ UNCHANGED <<pollVars, createVars, flowVars, downloadVars, adviceVars, analyzeVars, uploadVars, cacheVars, sessionVars, multiVars>>

EmbeddingIngestConvert ==
  /\ tool = "batch_ingest_embeddings"
  /\ ingestPc = "start"
  /\ ~TaskTypeMissing(taskTypeArg)
  /\ \E writeOk \in BOOLEAN :
       LET taskType == IF taskTypeArg = NoTaskType THEN promptForTaskType ELSE taskTypeArg
           r == convertToJSONLEmbeddings(srcContent, DetectFormat(srcExt), taskType, outFile, writeOk)
       IN /\ report' = ReportOf(r)
          /\ outFile' = r.file
  /\ ingestPc' = "converted"
  /\ UNCHANGED <<tool, srcExt, srcContent, taskTypeArg, validation>>
  /\ UNCHANGED <<pollVars, createVars, flowVars, downloadVars, adviceVars, analyzeVars, uploadVars, cacheVars, sessionVars, multiVars>>

(* convertToJSONL: await fs.readFile(filePath) stands before the try block; *)
(* when the source cannot be read the rejection leaves the function.        *)
ConvertReadReject ==
  /\ tool = "batch_ingest_content"
  /\ ingestPc = "start"
  /\ ingestPc' = "convertThrew"
  /\ UNCHANGED <<tool, srcExt, srcContent, taskTypeArg, outFile, report, validation>>
  /\ UNCHANGED <<pollVars, createVars, flowVars, downloadVars, adviceVars, analyzeVars, uploadVars, cacheVars, sessionVars, multiVars>>

(* validateJSONL: await fs.readFile(filePath) is not guarded either *)
ValidateReadReject ==
  /\ tool = "batch_ingest_content"
  /\ ingestPc = "converted"
  /\ report.validationPassed
  /\ ingestPc' = "validateThrew"
  /\ UNCHANGED <<tool, srcExt, srcContent, taskTypeArg, outFile, report, validation>>
  /\ UNCHANGED <<pollVars, createVars, flowVars, downloadVars, adviceVars, analyzeVars, uploadVars, cacheVars, sessionVars, multiVars>>

(* validateJSONL(outputFile) after a conversion that wrote the file *)
IngestValidate ==
  /\ tool \in {"batch_ingest_content", "batch_ingest_embeddings"}
  /\ ingestPc = "converted"
  /\ report.validationPassed
  /\ validation' = validateJSONL(outFile)
  /\ ingestPc' = "validated"
  /\ UNCHANGED <<tool, srcExt, srcContent, taskTypeArg, outFile, report>>
  /\ UNCHANGED <<pollVars, createVars, flowVars, downloadVars, adviceVars, analyzeVars, uploadVars, cacheVars, sessionVars, multiVars>>

(* validateJSONL(filePath) applied to a file of any content *)
ValidateFile ==
  /\ tool = "validateJSONL"
  /\ ingestPc = "start"
  /\ validation' = validateJSONL(outFile)
  /\ ingestPc' = "checked"
  /\ UNCHANGED <<tool, srcExt, srcContent, taskTypeArg, outFile, report>>
  /\ UNCHANGED <<pollVars, createVars, flowVars, downloadVars, adviceVars, analyzeVars, uploadVars, cacheVars, sessionVars, multiVars>>

-----------------------------------------------------------------------------
(* Job submission *)

NoEnvelope == [none |-> TRUE]

(* JavaScript truthiness of args.requests and args.inputFileUri *)
HasRequests(r) == r # "absent"          \* an array, even an empty one, is truthy
HasFile(u) == u # "absent"

(* handleBatchCreate: if (!requests && !inputFileUri) throw InvalidParams *)
BatchCreateRejects(r, u) == ~HasRequests(r) /\ ~HasFile(u)

(* handleBatchCreate: the argument of genAI.batches.create *)
BatchCreateEnvelope(r, u) ==
  IF HasRequests(r)
    THEN [method |-> "batches.create", src |-> "requests array", requests |-> "absent"]
    ELSE [method |-> "batches.create", src |-> "file handle string", requests |-> "absent"]

(* batch_create_embeddings: one source, no more and no less *)
BatchCreateEmbeddingsRejects(r, u) == HasRequests(r) = HasFile(u)

(* the argument of genAI.batches.createEmbeddings *)
BatchCreateEmbeddingsEnvelope(r, u) ==
  IF HasFile(u)
    THEN [method |-> "batches.createEmbeddings", src |-> "object {fileName}", requests |-> "absent"]
    ELSE [method |-> "batches.createEmbeddings", src |-> "object {inlinedRequests}", requests |-> "absent"]

Rejects(t, r, u) ==
  IF t = "batch_create" THEN BatchCreateRejects(r, u) ELSE BatchCreateEmbeddingsRejects(r, u)

Envelope(t, r, u) ==
  IF t = "batch_create" THEN BatchCreateEnvelope(r, u) ELSE BatchCreateEmbeddingsEnvelope(r, u)

CreateReject ==
  /\ tool \in {"batch_create", "batch_create_embeddings"}
  /\ createPc = "start"
  /\ Rejects(tool, requestsArg, fileArg)
  /\ createPc' = "invalidParams"
  /\ UNCHANGED <<tool, requestsArg, fileArg, sent, jobsCreated>>
  /\ UNCHANGED <<pollVars, ingestVars, flowVars, downloadVars, adviceVars, analyzeVars, uploadVars, cacheVars, sessionVars, multiVars>>

(* The call reaches the remote service, which creates the job or refuses *)
CreateSubmit ==
  /\ tool \in {"batch_create", "batch_create_embeddings"}
  /\ createPc = "start"
  /\ ~Rejects(tool, requestsArg, fileArg)
  /\ sent' = Envelope(tool, requestsArg, fileArg)
  /\ \E accepted \in BOOLEAN :
       IF accepted
         THEN createPc' = "created" /\ jobsCreated' = jobsCreated + 1
         ELSE createPc' = "createError" /\ jobsCreated' = jobsCreated
  /\ UNCHANGED <<tool, requestsArg, fileArg>>
  /\ UNCHANGED <<pollVars, ingestVars, flowVars, downloadVars, adviceVars, analyzeVars, uploadVars, cacheVars, sessionVars, multiVars>>

-----------------------------------------------------------------------------
(* One-call workflows: batch_process and batch_process_embeddings.          *)
(* 1. if the input is not JSONL, convert it with the ingestion tool;        *)
(* 2. upload the JSONL; 3. create the batch job; 4. return the job info.    *)

FirstStage(format) == IF format = "jsonl" THEN "upload" ELSE "convert"

(* The stage after a stage that succeeded; after the job is created the     *)
(* workflow returns the job details                                         *)
StageAfter(stage) ==
  IF stage = "convert" THEN "upload"
  ELSE IF stage = "upload" THEN "submit"
  ELSE "returned"

(* A stage that failed ends the run *)
OutcomeIgnored(stage, ok) == StageAfter(stage)

Outcome(stage, ok) == IF ok THEN StageAfter(stage) ELSE "failed"

(* The awaited stage has settled: go on, return, or surface its error *)
StageDone(stage, ok) ==
  /\ flowPc' = Outcome(stage, ok)
  /\ flowError' = IF Outcome(stage, ok) = "failed" THEN stage ELSE flowError
  /\ stagesRun' = IF Outcome(stage, ok) \in {"failed", "returned"}
                    THEN stagesRun ELSE Append(stagesRun, Outcome(stage, ok))
  /\ stageFailures' = IF ok THEN stageFailures ELSE Append(stageFailures, stage)

FlowKind == IF tool = "batch_process" THEN "batch_create" ELSE "batch_create_embeddings"

FlowStart ==
  /\ tool \in {"batch_process", "batch_process_embeddings"}
  /\ flowPc = "start"
  /\ flowPc' = FirstStage(DetectFormat(srcExt))
  /\ stagesRun' = <<FirstStage(DetectFormat(srcExt))>>
  /\ UNCHANGED <<tool, flowError, stageFailures>>
  /\ UNCHANGED <<pollVars, ingestVars, createVars, downloadVars, adviceVars, analyzeVars, uploadVars, cacheVars, sessionVars, multiVars>>

(* The ingestion tool has converted and validated, or has failed *)
FlowConvertDone ==
  /\ tool \in {"batch_process", "batch_process_embeddings"}
  /\ flowPc = "convert"
  /\ \E writeOk \in BOOLEAN :
       LET r == IF tool = "batch_process"
                  THEN convertToJSONL(srcContent, DetectFormat(srcExt), outFile, writeOk)
                  ELSE convertToJSONLEmbeddings(srcContent, DetectFormat(srcExt), taskTypeArg, outFile, writeOk)
           v == IF r.validationPassed THEN validateJSONL(r.file) ELSE NoReport
           ok == r.validationPassed /\ v.valid
       IN /\ report' = ReportOf(r)
          /\ outFile' = r.file
          /\ validation' = v
          /\ StageDone("convert", ok)
  /\ ingestPc' = "converted"
  /\ UNCHANGED <<tool, srcExt, srcContent, taskTypeArg>>
  /\ UNCHANGED <<pollVars, createVars, downloadVars, adviceVars, analyzeVars, uploadVars, cacheVars, sessionVars, multiVars>>

(* upload_file has returned the file handle, or has failed *)
FlowUploadDone ==
  /\ tool \in {"batch_process", "batch_process_embeddings"}
  /\ flowPc = "upload"
  /\ \E ok \in BOOLEAN :
       /\ StageDone("upload", ok)
       /\ fileArg' = IF ok THEN "files/uploaded" ELSE fileArg
  /\ UNCHANGED <<tool, requestsArg, createPc, sent, jobsCreated>>
  /\ UNCHANGED <<pollVars, ingestVars, downloadVars, adviceVars, analyzeVars, uploadVars, cacheVars, sessionVars, multiVars>>

(* The job is created from the uploaded file, or the service refuses *)
FlowSubmitDone ==
  /\ tool \in {"batch_process", "batch_process_embeddings"}
  /\ flowPc = "submit"
  /\ sent' = Envelope(FlowKind, requestsArg, fileArg)
  /\ \E ok \in BOOLEAN :
       /\ StageDone("submit", ok)
       /\ jobsCreated' = IF ok THEN jobsCreated + 1 ELSE jobsCreated
       /\ createPc' = IF ok THEN "created" ELSE "createError"
  /\ UNCHANGED <<tool, requestsArg, fileArg>>
  /\ UNCHANGED <<pollVars, ingestVars, downloadVars, adviceVars, analyzeVars, uploadVars, cacheVars, sessionVars, multiVars>>

-----------------------------------------------------------------------------
(* downloadAndParseBatchResults(batchJob, outputLocation) *)

(* An optional field of batchJob.dest.  A job without dest reads like a job *)
(* whose three fields are absent: every access is batchJob.dest?.field.     *)
Absent == [present |-> FALSE]
Present(v) == [present |-> TRUE, v |-> v]

NoResults == [none |-> TRUE]
NoResultsFile == [none |-> TRUE]

(* The callback of inlinedResponses.map *)
InlineResultNoUnwrap(resp) ==
  IF Truthy(Prop(resp, "response"))
    THEN Prop(resp, "response")
  ELSE IF Truthy(Prop(resp, "error"))
    THEN JObj([error |-> Prop(resp, "error")])
  ELSE resp

InlineResult(resp) ==
  IF Truthy(Prop(resp, "response"))
    THEN IF Truthy(Prop(Prop(resp, "response"), "text"))
           THEN Prop(Prop(resp, "response"), "text")
           ELSE Prop(resp, "response")
  ELSE IF Truthy(Prop(resp, "error"))
    THEN JObj([error |-> Prop(resp, "error")])
  ELSE resp

Threw(message) == [outcome |-> message, results |-> NoResults, file |-> NoResultsFile]

downloadAndParseBatchResultsSkipBadLines(d, fileContent, downloadOk, writeOk) ==
  IF d.inlinedResponses.present THEN
    LET responses == d.inlinedResponses.v
        mapped == [i \in 1..Len(responses) |-> InlineResult(responses[i])]
    IN IF writeOk
         THEN [outcome |-> "returned", results |-> [items |-> mapped],
               file |-> [ext |-> ".json", content |-> <<JSONstringify(JArr(mapped))>>]]
         ELSE Threw("threw: write failed")
  ELSE IF d.fileName.present THEN
    IF ~downloadOk THEN Threw("threw: download failed")
    ELSE LET lines == SelectSeq(NonBlankLines(fileContent), LAMBDA l : ~JSONparseThrows(l)) IN
      IF writeOk
        THEN [outcome |-> "returned",
              results |-> [items |-> [i \in 1..Len(lines) |-> JSONparse(lines[i])]],
              file |-> [ext |-> ".jsonl", content |-> fileContent]]
        ELSE Threw("threw: write failed")
  ELSE Threw("threw: No results found in batch job")

(* The whole function.  fileContent is what genAI.files.download resolves   *)
(* to; downloadOk and writeOk say whether that call and fs.writeFile        *)
(* succeed.                                                                 *)
downloadAndParseBatchResults(d, fileContent, downloadOk, writeOk) ==
  IF d.inlinedResponses.present THEN
    LET responses == d.inlinedResponses.v
        mapped == [i \in 1..Len(responses) |-> InlineResult(responses[i])]
    IN IF writeOk
         THEN [outcome |-> "returned", results |-> [items |-> mapped],
               file |-> [ext |-> ".json", content |-> <<JSONstringify(JArr(mapped))>>]]
         ELSE Threw("threw: write failed")
  ELSE IF d.fileName.present THEN
    IF ~downloadOk THEN Threw("threw: download failed")
    ELSE LET lines == NonBlankLines(fileContent) IN
      IF \E i \in 1..Len(lines) : JSONparseThrows(lines[i])
        THEN Threw("threw: invalid JSON")
        ELSE IF writeOk
          THEN [outcome |-> "returned",
                results |-> [items |-> [i \in 1..Len(lines) |-> JSONparse(lines[i])]],
                file |-> [ext |-> ".jsonl", content |-> fileContent]]
          ELSE Threw("threw: write failed")
  ELSE Threw("threw: No results found in batch job")

Download ==
  /\ tool = "batch_download_results"
  /\ downloadPc = "start"
  /\ \E downloadOk \in BOOLEAN, writeOk \in BOOLEAN :
       LET r == downloadAndParseBatchResults(dest, remoteFile, downloadOk, writeOk) IN
         /\ downloadPc' = r.outcome
         /\ results' = r.results
         /\ resultsFile' = r.file
  /\ UNCHANGED <<tool, dest, remoteFile>>
  /\ UNCHANGED <<pollVars, ingestVars, createVars, flowVars, adviceVars, analyzeVars, uploadVars, cacheVars, sessionVars, multiVars>>

-----------------------------------------------------------------------------
(* getTaskTypeRecommendation(context, samples).                             *)
(*                                                                          *)
(* A context is the set of its words; a word is a stem written in lower or  *)
(* in upper case.  String.includes is case sensitive.                       *)

Word(stem, letterCase) == [stem |-> stem, letterCase |-> letterCase]

(* context.toLowerCase() *)
toLowerCase(text) == {Word(w.stem, "lower") : w \in text}

(* text.includes(keyword), for a keyword written in lower case *)
includes(text, keyword) == Word(keyword, "lower") \in text

NoRecommendation == [none |-> TRUE]

getTaskTypeRecommendationCaseSensitive(ctx, smp) ==
  LET contextLower == ctx IN
    IF includes(contextLower, "similar") \/ includes(contextLower, "recommend")
      THEN [taskType |-> "SEMANTIC_SIMILARITY", confidence |-> "0.9"]
    ELSE IF includes(contextLower, "categor") \/ includes(contextLower, "classif")
      THEN [taskType |-> "CLASSIFICATION", confidence |-> "0.9"]
    ELSE IF includes(contextLower, "search") \/ includes(contextLower, "retriev")
      THEN [taskType |-> "RETRIEVAL_DOCUMENT", confidence |-> "0.8"]
    ELSE [taskType |-> "RETRIEVAL_DOCUMENT", confidence |-> "0.5"]

getTaskTypeRecommendation(ctx, smp) ==
  LET contextLower == toLowerCase(ctx) IN
    IF includes(contextLower, "similar") \/ includes(contextLower, "recommend")
      THEN [taskType |-> "SEMANTIC_SIMILARITY", confidence |-> "0.9"]
    ELSE IF includes(contextLower, "categor") \/ includes(contextLower, "classif")
      THEN [taskType |-> "CLASSIFICATION", confidence |-> "0.9"]
    ELSE IF includes(contextLower, "search") \/ includes(contextLower, "retriev")
      THEN [taskType |-> "RETRIEVAL_DOCUMENT", confidence |-> "0.8"]
    ELSE [taskType |-> "RETRIEVAL_DOCUMENT", confidence |-> "0.5"]

QueryTaskType ==
  /\ tool = "batch_query_task_type"
  /\ recommendation = NoRecommendation
  /\ recommendation' = getTaskTypeRecommendation(context, samples)
  /\ UNCHANGED <<tool, context, samples>>
  /\ UNCHANGED <<pollVars, ingestVars, createVars, flowVars, downloadVars, analyzeVars, uploadVars, cacheVars, sessionVars, multiVars>>

-----------------------------------------------------------------------------
(* upload_file: handleUploadFile, uploadFileWithRetry, waitForFileProcessing *)

(* BATCH_CONFIG *)
RETRY_ATTEMPTS == 3
RETRY_DELAY_MS == 2000
PROCESSING_CHECK_INTERVAL_MS == 5000
MAX_PROCESSING_WAIT_MS == 120000

(* The URI under which the uploaded file is cached *)
UploadedUri == "files/new"

(* if (attempt < retries) await this.sleep(...) *)
MayRetryAlways(att, retries) == TRUE

MayRetry(att, retries) == att < retries

(* BATCH_CONFIG.RETRY_DELAY_MS * attempt *)
RetryDelayConstant(att) == RETRY_DELAY_MS

RetryDelay(att) == RETRY_DELAY_MS * att

(* if (Date.now() - startTime > BATCH_CONFIG.MAX_PROCESSING_WAIT_MS) *)
ProcessingWaitElapsed(t, start) == t - start > MAX_PROCESSING_WAIT_MS

UploadStart ==
  /\ tool = "upload_file"
  /\ upPc = "start"
  /\ IF filePathArg = "absent"
       THEN /\ upPc' = "invalidParams"
            /\ UNCHANGED <<attempt, attemptsMade>>
       ELSE /\ upPc' = "attempting"
            /\ attempt' = 1
            /\ attemptsMade' = attemptsMade + 1
  /\ UNCHANGED <<tool, filePathArg, upNow, retryWaits, lastError, upError, raisedAttempt,
                 remoteState, observedState, waitStart, getCalls>>
  /\ UNCHANGED <<pollVars, ingestVars, createVars, flowVars, downloadVars, adviceVars, analyzeVars, cacheVars, sessionVars, multiVars>>

(* genAI.files.upload resolves: uploadFileWithRetry returns the file and    *)
(* waitForFileProcessing takes startTime                                    *)
AttemptResolve ==
  /\ tool = "upload_file"
  /\ upPc = "attempting"
  /\ \E d \in 0..MaxLatencySteps, st \in {"PROCESSING", "ACTIVE", "FAILED"} :
       /\ upNow' = upNow + d * TimeStepMs
       /\ remoteState' = st
       /\ observedState' = st
       /\ waitStart' = upNow + d * TimeStepMs
  /\ upPc' = "waitCheck"
  /\ UNCHANGED <<tool, filePathArg, attempt, attemptsMade, retryWaits, lastError, upError,
                 raisedAttempt, getCalls>>
  /\ UNCHANGED <<pollVars, ingestVars, createVars, flowVars, downloadVars, adviceVars, analyzeVars, cacheVars, sessionVars, multiVars>>

(* genAI.files.upload rejects: sleep and try again, or throw lastError,     *)
(* which handleUploadFile turns into an error result                        *)
AttemptReject ==
  /\ tool = "upload_file"
  /\ upPc = "attempting"
  /\ \E d \in 0..MaxLatencySteps : upNow' = upNow + d * TimeStepMs
  /\ lastError' = attempt
  /\ IF MayRetry(attempt, RETRY_ATTEMPTS)
       THEN /\ upPc' = "retrySleep"
            /\ retryWaits' = Append(retryWaits, RetryDelay(attempt))
            /\ UNCHANGED <<upError, raisedAttempt>>
       ELSE /\ upPc' = "error"
            /\ upError' = "upload"
            /\ raisedAttempt' = attempt
            /\ UNCHANGED retryWaits
  /\ UNCHANGED <<tool, filePathArg, attempt, attemptsMade, remoteState, observedState, waitStart, getCalls>>
  /\ UNCHANGED <<pollVars, ingestVars, createVars, flowVars, downloadVars, adviceVars, analyzeVars, cacheVars, sessionVars, multiVars>>

(* The retry timer fires: the next turn of the for loop, or its end *)
RetrySleepResolve ==
  /\ tool = "upload_file"
  /\ upPc = "retrySleep"
  /\ \E j \in 0..MaxJitterSteps :
       upNow' = upNow + retryWaits[Len(retryWaits)] + j * TimeStepMs
  /\ IF attempt + 1 <= RETRY_ATTEMPTS
       THEN /\ attempt' = attempt + 1
            /\ attemptsMade' = attemptsMade + 1
            /\ upPc' = "attempting"
            /\ UNCHANGED <<upError, raisedAttempt>>
       ELSE /\ attempt' = attempt + 1
            /\ upPc' = "error"
            /\ upError' = "upload"
            /\ raisedAttempt' = lastError
            /\ UNCHANGED attemptsMade
  /\ UNCHANGED <<tool, filePathArg, retryWaits, lastError, remoteState, observedState, waitStart, getCalls>>
  /\ UNCHANGED <<pollVars, ingestVars, createVars, flowVars, downloadVars, adviceVars, analyzeVars, cacheVars, sessionVars, multiVars>>

(* The file is processed by the remote service *)
RemoteFileAdvance ==
  /\ tool = "upload_file"
  /\ upPc \in {"waitCheck", "waitSleep", "waitGet"}
  /\ remoteState = "PROCESSING"
  /\ remoteState' \in {"ACTIVE", "FAILED"}
  /\ UNCHANGED <<tool, filePathArg, upPc, upNow, attempt, attemptsMade, retryWaits, lastError,
                 upError, raisedAttempt, observedState, waitStart, getCalls>>
  /\ UNCHANGED <<pollVars, ingestVars, createVars, flowVars, downloadVars, adviceVars, analyzeVars, cacheVars, sessionVars, multiVars>>

(* The while test of waitForFileProcessing and what follows it without an   *)
(* await: the timeout test, or the FAILED test and the return, after which  *)
(* handleUploadFile fills the two caches                                    *)
WaitCheck ==
  /\ tool = "upload_file"
  /\ upPc = "waitCheck"
  /\ IF observedState = "PROCESSING"
       THEN IF ProcessingWaitElapsed(upNow, waitStart)
              THEN /\ upPc' = "error"
                   /\ upError' = "timeout"
                   /\ UNCHANGED cacheVars
              ELSE /\ upPc' = "waitSleep"
                   /\ UNCHANGED <<upError, cacheVars>>
       ELSE IF observedState = "FAILED"
              THEN /\ upPc' = "error"
                   /\ upError' = "failed"
                   /\ UNCHANGED cacheVars
              ELSE /\ upPc' = "success"
                   /\ uploadedFiles' = uploadedFiles \cup {UploadedUri}
                   /\ fileObjects' = fileObjects \cup {UploadedUri}
                   /\ UNCHANGED upError
  /\ UNCHANGED <<tool, filePathArg, upNow, attempt, attemptsMade, retryWaits, lastError,
                 raisedAttempt, remoteState, observedState, waitStart, getCalls>>
  /\ UNCHANGED <<pollVars, ingestVars, createVars, flowVars, downloadVars, adviceVars, analyzeVars, sessionVars, multiVars>>

(* await this.sleep(PROCESSING_CHECK_INTERVAL_MS), then files.get is sent *)
WaitSleepResolve ==
  /\ tool = "upload_file"
  /\ upPc = "waitSleep"
  /\ \E j \in 0..MaxJitterSteps :
       upNow' = upNow + PROCESSING_CHECK_INTERVAL_MS + j * TimeStepMs
  /\ upPc' = "waitGet"
  /\ getCalls' = getCalls + 1
  /\ UNCHANGED <<tool, filePathArg, attempt, attemptsMade, retryWaits, lastError, upError,
                 raisedAttempt, remoteState, observedState, waitStart>>
  /\ UNCHANGED <<pollVars, ingestVars, createVars, flowVars, downloadVars, adviceVars, analyzeVars, cacheVars, sessionVars, multiVars>>

(* genAI.files.get resolves with the file *)
WaitGetResolve ==
  /\ tool = "upload_file"
  /\ upPc = "waitGet"
  /\ \E d \in 0..MaxLatencySteps : upNow' = upNow + d * TimeStepMs
  /\ observedState' = remoteState
  /\ upPc' = "waitCheck"
  /\ UNCHANGED <<tool, filePathArg, attempt, attemptsMade, retryWaits, lastError, upError,
                 raisedAttempt, remoteState, waitStart, getCalls>>
  /\ UNCHANGED <<pollVars, ingestVars, createVars, flowVars, downloadVars, adviceVars, analyzeVars, cacheVars, sessionVars, multiVars>>

(* genAI.files.get rejects: the catch logs and the loop goes on *)
WaitGetRejectEndsWait ==
  /\ tool = "upload_file"
  /\ upPc = "waitGet"
  /\ \E d \in 0..MaxLatencySteps : upNow' = upNow + d * TimeStepMs
  /\ upPc' = "error"
  /\ upError' = "failed"
  /\ UNCHANGED <<tool, filePathArg, attempt, attemptsMade, retryWaits, lastError,
                 raisedAttempt, remoteState, observedState, waitStart, getCalls>>
  /\ UNCHANGED <<pollVars, ingestVars, createVars, flowVars, downloadVars, adviceVars, analyzeVars, cacheVars, sessionVars, multiVars>>

WaitGetReject ==
  /\ tool = "upload_file"
  /\ upPc = "waitGet"
  /\ \E d \in 0..MaxLatencySteps : upNow' = upNow + d * TimeStepMs
  /\ upPc' = "waitCheck"
  /\ UNCHANGED <<tool, filePathArg, attempt, attemptsMade, retryWaits, lastError, upError,
                 raisedAttempt, remoteState, observedState, waitStart, getCalls>>
  /\ UNCHANGED <<pollVars, ingestVars, createVars, flowVars, downloadVars, adviceVars, analyzeVars, cacheVars, sessionVars, multiVars>>

-----------------------------------------------------------------------------
(* The file caches across upload, list, get, chat, delete and cleanup *)

Uris == {"files/a", "files/b"}

InSession ==
  /\ tool = "cleanup_all_files"
  /\ cleanupPc = "idle"
  /\ opsDone < MaxOps

(* handleUploadFile / handleMultipleUpload: a successful upload is cached *)
SessionUpload ==
  /\ InSession
  /\ \E u \in Uris \ remoteFiles :
       /\ remoteFiles' = remoteFiles \cup {u}
       /\ uploadedFiles' = uploadedFiles \cup {u}
       /\ fileObjects' = fileObjects \cup {u}
  /\ opsDone' = opsDone + 1
  /\ UNCHANGED <<tool, cleanupPc, pending, deletedFiles, failedDeletes>>
  /\ UNCHANGED <<pollVars, ingestVars, createVars, flowVars, downloadVars, adviceVars, analyzeVars, uploadVars, multiVars>>

(* handleListFiles: every listed file is cached *)
SessionList ==
  /\ InSession
  /\ uploadedFiles' = uploadedFiles \cup remoteFiles
  /\ fileObjects' = fileObjects \cup remoteFiles
  /\ opsDone' = opsDone + 1
  /\ UNCHANGED <<tool, remoteFiles, cleanupPc, pending, deletedFiles, failedDeletes>>
  /\ UNCHANGED <<pollVars, ingestVars, createVars, flowVars, downloadVars, adviceVars, analyzeVars, uploadVars, multiVars>>

(* handleGetFile: the file is cached when the remote service returns it *)
SessionGet ==
  /\ InSession
  /\ \E u \in Uris :
       IF u \in remoteFiles
         THEN /\ uploadedFiles' = uploadedFiles \cup {u}
              /\ fileObjects' = fileObjects \cup {u}
         ELSE UNCHANGED cacheVars
  /\ opsDone' = opsDone + 1
  /\ UNCHANGED <<tool, remoteFiles, cleanupPc, pending, deletedFiles, failedDeletes>>
  /\ UNCHANGED <<pollVars, ingestVars, createVars, flowVars, downloadVars, adviceVars, analyzeVars, uploadVars, multiVars>>

(* handleChat with one file URI: a file missing from fileObjects is fetched *)
(* and stored in fileObjects                                               *)
SessionChat ==
  /\ InSession
  /\ \E u \in Uris :
       IF u \notin fileObjects /\ u \in remoteFiles
         THEN /\ fileObjects' = fileObjects \cup {u}
              /\ UNCHANGED uploadedFiles
         ELSE UNCHANGED cacheVars
  /\ opsDone' = opsDone + 1
  /\ UNCHANGED <<tool, remoteFiles, cleanupPc, pending, deletedFiles, failedDeletes>>
  /\ UNCHANGED <<pollVars, ingestVars, createVars, flowVars, downloadVars, adviceVars, analyzeVars, uploadVars, multiVars>>

(* handleDeleteFile: the caches forget the file once the remote deletion   *)
(* has succeeded                                                            *)
SessionDelete ==
  /\ InSession
  /\ \E u \in Uris :
       IF u \in remoteFiles
         THEN /\ remoteFiles' = remoteFiles \ {u}
              /\ uploadedFiles' = uploadedFiles \ {u}
              /\ fileObjects' = fileObjects \ {u}
         ELSE UNCHANGED <<remoteFiles, cacheVars>>
  /\ opsDone' = opsDone + 1
  /\ UNCHANGED <<tool, cleanupPc, pending, deletedFiles, failedDeletes>>
  /\ UNCHANGED <<pollVars, ingestVars, createVars, flowVars, downloadVars, adviceVars, analyzeVars, uploadVars, multiVars>>

(* handleCleanupAllFiles: the loop runs over the entries of uploadedFiles *)
CleanupStart ==
  /\ tool = "cleanup_all_files"
  /\ cleanupPc = "idle"
  /\ cleanupPc' = "running"
  /\ pending' = uploadedFiles
  /\ UNCHANGED <<tool, remoteFiles, opsDone, deletedFiles, failedDeletes>>
  /\ UNCHANGED <<pollVars, ingestVars, createVars, flowVars, downloadVars, adviceVars, analyzeVars, uploadVars, cacheVars, multiVars>>

(* One turn of the loop: genAI.files.delete resolves or rejects *)
CleanupDelete ==
  /\ tool = "cleanup_all_files"
  /\ cleanupPc = "running"
  /\ \E u \in pending, ok \in BOOLEAN :
       /\ pending' = pending \ {u}
       /\ IF ok
            THEN /\ remoteFiles' = remoteFiles \ {u}
                 /\ deletedFiles' = deletedFiles \cup {u}
                 /\ uploadedFiles' = uploadedFiles \ {u}
                 /\ fileObjects' = fileObjects \ {u}
                 /\ UNCHANGED failedDeletes
            ELSE /\ failedDeletes' = failedDeletes \cup {u}
                 /\ UNCHANGED <<remoteFiles, deletedFiles, cacheVars>>
  /\ UNCHANGED <<tool, opsDone, cleanupPc>>
  /\ UNCHANGED <<pollVars, ingestVars, createVars, flowVars, downloadVars, adviceVars, analyzeVars, uploadVars, multiVars>>

(* The loop is over: the result is returned *)
CleanupReturn ==
  /\ tool = "cleanup_all_files"
  /\ cleanupPc = "running"
  /\ pending = {}
  /\ cleanupPc' = "done"
  /\ UNCHANGED <<tool, remoteFiles, opsDone, pending, deletedFiles, failedDeletes>>
  /\ UNCHANGED <<pollVars, ingestVars, createVars, flowVars, downloadVars, adviceVars, analyzeVars, uploadVars, cacheVars, multiVars>>

-----------------------------------------------------------------------------
(* upload_multiple_files: handleMultipleUpload *)

(* The values of args.maxConcurrent tried: below 1, the default, within  *)
(* the schema's 1 .. 10, and above 10                                      *)
MaxConcurrentArgs == {-1, 0, 1, 2, 11}

(* BATCH_CONFIG.MAX_CONCURRENT_UPLOADS, the literal 5 of the handler, and  *)
(* the literal 10                                                          *)
DefaultMaxConcurrent == 5
MaxConcurrentCap == 10

MathMin(a, b) == IF a < b THEN a ELSE b

(* args?.maxConcurrent || 5: 0 and an absent value give the default *)
OrDefault(v, d) == IF v = 0 THEN d ELSE v

(* Array.prototype.slice on an array of length n: a negative index counts  *)
(* from the end, every index is clamped to 0 .. n. The result is the set   *)
(* of the 1-based positions taken.                                         *)
RelativeIndex(k, n) ==
  IF k < 0 THEN (IF n + k < 0 THEN 0 ELSE n + k)
           ELSE (IF k < n THEN k ELSE n)

slice(n, start, end) == {p \in 1..n : RelativeIndex(start, n) < p /\ p <= RelativeIndex(end, n)}

(* The URI the remote service gives the upload of path p *)
PathUri(p) == "files/" \o ToString(p)

(* i += maxConcurrent. Below -MaxBelowZero the index is kept at that floor: *)
(* with a negative step every slice from a negative index is empty, so the  *)
(* turns of the loop below the floor are those at the floor.                *)
NextIndex(i, step) == IF i + step < -MaxBelowZero THEN -MaxBelowZero ELSE i + step

NoSummary == [totalRequested |-> 0, successfulUploads |-> 0, failedUploads |-> 0]

(* The test of the for loop with index i: the next group is started, or    *)
(* the summary is returned                                                  *)
LoopTest(i, step) ==
  /\ loopI' = i
  /\ IF i < filePathsLen
       THEN /\ mPc' = "group"
            /\ inFlight' = slice(filePathsLen, i, i + step)
            /\ UNCHANGED summary
       ELSE /\ mPc' = "done"
            /\ inFlight' = {}
            /\ summary' = [totalRequested |-> filePathsLen,
                           successfulUploads |-> Len(successful),
                           failedUploads |-> Len(failed)]

MultiStart ==
  /\ tool = "upload_multiple_files"
  /\ mPc = "start"
  /\ maxConcurrent' = MathMin(OrDefault(maxConcurrentArg, DefaultMaxConcurrent), MaxConcurrentCap)
  /\ IF filePathsLen = 0
       THEN /\ mPc' = "invalidParams"
            /\ UNCHANGED <<loopI, inFlight, summary>>
       ELSE LoopTest(0, MathMin(OrDefault(maxConcurrentArg, DefaultMaxConcurrent), MaxConcurrentCap))
  /\ UNCHANGED <<tool, filePathsLen, maxConcurrentArg, successful, failed>>
  /\ UNCHANGED <<pollVars, ingestVars, createVars, flowVars, downloadVars, adviceVars, analyzeVars, uploadVars, cacheVars, sessionVars>>

(* One upload of the group settles: fs.access, uploadFileWithRetry and     *)
(* waitForFileProcessing went through and the file is cached and pushed on  *)
(* result.successful, or one of them threw and the path is pushed on        *)
(* result.failed                                                            *)
MultiSettle ==
  /\ tool = "upload_multiple_files"
  /\ mPc = "group"
  /\ \E p \in inFlight, ok \in BOOLEAN :
       /\ inFlight' = inFlight \ {p}
       /\ IF ok
            THEN /\ uploadedFiles' = uploadedFiles \cup {PathUri(p)}
                 /\ fileObjects' = fileObjects \cup {PathUri(p)}
                 /\ successful' = Append(successful, p)
                 /\ UNCHANGED failed
            ELSE /\ failed' = Append(failed, p)
                 /\ UNCHANGED <<successful, cacheVars>>
  /\ UNCHANGED <<tool, filePathsLen, maxConcurrentArg, maxConcurrent, loopI, mPc, summary>>
  /\ UNCHANGED <<pollVars, ingestVars, createVars, flowVars, downloadVars, adviceVars, analyzeVars, uploadVars, sessionVars>>

(* Promise.all resolves: sleep before the next group, or go on at once *)
MultiGroupDone ==
  /\ tool = "upload_multiple_files"
  /\ mPc = "group"
  /\ inFlight = {}
  /\ IF loopI + maxConcurrent < filePathsLen
       THEN /\ mPc' = "sleep"
            /\ UNCHANGED <<loopI, inFlight, summary>>
       ELSE LoopTest(NextIndex(loopI, maxConcurrent), maxConcurrent)
  /\ UNCHANGED <<tool, filePathsLen, maxConcurrentArg, maxConcurrent, successful, failed>>
  /\ UNCHANGED <<pollVars, ingestVars, createVars, flowVars, downloadVars, adviceVars, analyzeVars, uploadVars, cacheVars, sessionVars>>

(* The one second sleep between groups is over *)
MultiSleepResolve ==
  /\ tool = "upload_multiple_files"
  /\ mPc = "sleep"
  /\ LoopTest(NextIndex(loopI, maxConcurrent), maxConcurrent)
  /\ UNCHANGED <<tool, filePathsLen, maxConcurrentArg, maxConcurrent, successful, failed>>
  /\ UNCHANGED <<pollVars, ingestVars, createVars, flowVars, downloadVars, adviceVars, analyzeVars, uploadVars, cacheVars, sessionVars>>

-----------------------------------------------------------------------------
(* Inputs *)

ContentLine == ContentRecord(1, Raw("a"))
EmbeddingLine == EmbeddingRecord(1, Raw("a"), "CLASSIFICATION")
NoRequestLine == JSONstringify(JObj([key |-> JStr(Raw("k"))]))
NullLine == JSONstringify(JNull)
ArrayDocument == JSONstringify(JArr(<<JStr(Raw("a")), JObj([q |-> JNum(0)]), JNum(7)>>))

SourceLines ==
  {Raw(""), Raw(" "), Raw("a"), Raw("b"),
   ContentLine, EmbeddingLine, NoRequestLine, NullLine, ArrayDocument}

SourceContents == UNION {[1..n -> SourceLines] : n \in 1..MaxLines}

SourceExts == {".jsonl", ".json", ".csv", ".txt", ".xml", ".bin"}

TaskTypeArgs == {NoTaskType, "SEMANTIC_SIMILARITY"}

(* Entries of dest.inlinedResponses *)
ResponseWithText == JObj([response |-> JObj([text |-> JStr(Raw("hi"))])])
ResponseWithEmptyText == JObj([response |-> JObj([text |-> JStr(Raw(""))])])
ResponseWithoutText == JObj([response |-> JObj([candidates |-> JArr(<<>>)])])
ResponseWithError == JObj([error |-> JObj([code |-> JNum(3)])])

InlineEntries ==
  {ResponseWithText, ResponseWithEmptyText, ResponseWithoutText, ResponseWithError}

InlinedResponseLists == UNION {[1..n -> InlineEntries] : n \in 0..MaxResponses}

EmbeddingEntry == JObj([embedding |-> JObj([values |-> JArr(<<JNum(1)>>)])])

Stems == {"similar", "recommend", "categor", "classif", "search", "retriev", "other"}

Words == {Word(stem, c) : stem \in Stems, c \in {"lower", "upper"}}

Contexts == {text \in SUBSET Words : Cardinality(text) <= MaxWords}

SampleLists == {<<>>, <<"find similar items">>, <<"classify this">>}

AnalyzeExts == SourceExts \cup {".ndjson", ".md", ".JSON", ".Csv"}

AnalyzeIdle == descriptors = <<>>

MultiIdle ==
  /\ filePathsLen = 0
  /\ maxConcurrentArg = 0
  /\ maxConcurrent = 0
  /\ loopI = 0
  /\ mPc = "start"
  /\ inFlight = {}
  /\ successful = <<>>
  /\ failed = <<>>
  /\ summary = NoSummary

SessionIdle ==
  /\ remoteFiles = {}
  /\ opsDone = 0
  /\ cleanupPc = "idle"
  /\ pending = {}
  /\ deletedFiles = {}
  /\ failedDeletes = {}

UploadIdle ==
  /\ filePathArg = "absent"
  /\ upPc = "start"
  /\ upNow = 0
  /\ attempt = 0
  /\ attemptsMade = 0
  /\ retryWaits = <<>>
  /\ lastError = 0
  /\ upError = "none"
  /\ raisedAttempt = 0
  /\ remoteState = "none"
  /\ observedState = "none"
  /\ waitStart = 0
  /\ getCalls = 0

CacheEmpty ==
  /\ uploadedFiles = {}
  /\ fileObjects = {}

AdviceIdle ==
  /\ context = {}
  /\ samples = <<>>
  /\ recommendation = NoRecommendation

DownloadIdle ==
  /\ downloadPc = "start"
  /\ results = NoResults
  /\ resultsFile = NoResultsFile

NoDest ==
  /\ dest = [inlinedResponses |-> Absent, fileName |-> Absent,
             inlinedEmbedContentResponses |-> Absent]
  /\ remoteFile = <<>>

PollIdle ==
  /\ jobState \in {JOB_STATE_PENDING, JOB_STATE_RUNNING}
  /\ now = 0
  /\ pollPc = "idle"
  /\ startTime = 0
  /\ intervalSeconds = 1
  /\ maxWaitMs = 0
  /\ fetchCalls = 0
  /\ fetched = <<>>
  /\ pollResult = NoJob
  /\ cancelRequested = FALSE

CreateIdle ==
  /\ createPc = "start"
  /\ sent = NoEnvelope
  /\ jobsCreated = 0

FlowIdle ==
  /\ flowPc = "start"
  /\ stagesRun = <<>>
  /\ flowError = "none"
  /\ stageFailures = <<>>

NoArgs ==
  /\ requestsArg = "absent"
  /\ fileArg = "absent"

NoSource ==
  /\ srcExt = ".txt"
  /\ srcContent = <<Raw("")>>
  /\ taskTypeArg = NoTaskType

IngestIdle ==
  /\ outFile = NoFile
  /\ ingestPc = "start"
  /\ report = NoReport
  /\ validation = NoReport

(* The output path may already hold a file when the converter is called *)
PreExistingFile == <<Raw("old")>>

IngestIdleOver ==
  /\ outFile \in {NoFile, PreExistingFile}
  /\ ingestPc = "start"
  /\ report = NoReport
  /\ validation = NoReport

Init ==
  \/ /\ tool = "batch_get_status"
     /\ PollIdle /\ DownloadIdle /\ AdviceIdle /\ AnalyzeIdle /\ UploadIdle /\ CacheEmpty /\ SessionIdle /\ MultiIdle /\ NoDest /\ IngestIdle /\ CreateIdle /\ FlowIdle /\ NoArgs /\ NoSource
  \/ /\ tool = "batch_ingest_content"
     /\ PollIdle /\ DownloadIdle /\ AdviceIdle /\ AnalyzeIdle /\ UploadIdle /\ CacheEmpty /\ SessionIdle /\ MultiIdle /\ NoDest /\ jobState = JOB_STATE_PENDING
     /\ IngestIdleOver /\ CreateIdle /\ FlowIdle /\ NoArgs
     /\ srcExt \in SourceExts /\ srcContent \in SourceContents /\ taskTypeArg = NoTaskType
  \/ /\ tool = "batch_ingest_embeddings"
     /\ PollIdle /\ DownloadIdle /\ AdviceIdle /\ AnalyzeIdle /\ UploadIdle /\ CacheEmpty /\ SessionIdle /\ MultiIdle /\ NoDest /\ jobState = JOB_STATE_PENDING
     /\ IngestIdle /\ CreateIdle /\ FlowIdle /\ NoArgs
     /\ srcExt \in SourceExts /\ srcContent \in SourceContents /\ taskTypeArg \in TaskTypeArgs
  \/ /\ tool = "validateJSONL"
     /\ PollIdle /\ DownloadIdle /\ AdviceIdle /\ AnalyzeIdle /\ UploadIdle /\ CacheEmpty /\ SessionIdle /\ MultiIdle /\ NoDest /\ jobState = JOB_STATE_PENDING
     /\ CreateIdle /\ FlowIdle /\ NoArgs /\ NoSource
     /\ outFile \in SourceContents
     /\ ingestPc = "start" /\ report = NoReport /\ validation = NoReport
  \/ /\ tool \in {"batch_create", "batch_create_embeddings"}
     /\ PollIdle /\ DownloadIdle /\ AdviceIdle /\ AnalyzeIdle /\ UploadIdle /\ CacheEmpty /\ SessionIdle /\ MultiIdle /\ NoDest /\ jobState = JOB_STATE_PENDING
     /\ IngestIdle /\ CreateIdle /\ FlowIdle /\ NoSource
     /\ requestsArg \in {"absent", "empty", "some"}
     /\ fileArg \in {"absent", "files/abc"}
  \/ /\ tool = "batch_download_results"
     /\ jobState \in completedStates
     /\ now = 0 /\ pollPc = "idle" /\ startTime = 0 /\ intervalSeconds = 1
     /\ maxWaitMs = 0 /\ fetchCalls = 0 /\ fetched = <<>> /\ pollResult = NoJob
     /\ cancelRequested = FALSE
     /\ IngestIdle /\ CreateIdle /\ FlowIdle /\ NoArgs /\ NoSource
     /\ DownloadIdle /\ AdviceIdle /\ AnalyzeIdle /\ UploadIdle /\ CacheEmpty /\ SessionIdle /\ MultiIdle
     /\ \E inlined \in {Absent} \cup {Present(l) : l \in InlinedResponseLists},
           file \in {Absent, Present("files/result")},
           embedded \in {Absent, Present(<<EmbeddingEntry>>)} :
          dest = [inlinedResponses |-> inlined, fileName |-> file,
                  inlinedEmbedContentResponses |-> embedded]
     /\ IF dest.fileName.present /\ ~dest.inlinedResponses.present
          THEN remoteFile \in SourceContents
          ELSE remoteFile = <<>>
  \/ /\ tool = "batch_query_task_type"
     /\ PollIdle /\ DownloadIdle /\ AnalyzeIdle /\ UploadIdle /\ CacheEmpty /\ SessionIdle /\ MultiIdle /\ NoDest /\ jobState = JOB_STATE_PENDING
     /\ IngestIdle /\ CreateIdle /\ FlowIdle /\ NoArgs /\ NoSource
     /\ context \in Contexts
     /\ samples \in SampleLists
     /\ recommendation = NoRecommendation
  \/ /\ tool = "analyzeContentStructure"
     /\ PollIdle /\ DownloadIdle /\ AdviceIdle /\ AnalyzeIdle /\ UploadIdle /\ CacheEmpty /\ SessionIdle /\ MultiIdle /\ NoDest
     /\ jobState = JOB_STATE_PENDING
     /\ IngestIdle /\ CreateIdle /\ FlowIdle /\ NoArgs
     /\ srcExt \in AnalyzeExts /\ srcContent \in SourceContents /\ taskTypeArg = NoTaskType
  \/ /\ tool = "upload_file"
     /\ PollIdle /\ DownloadIdle /\ AdviceIdle /\ AnalyzeIdle /\ NoDest
     /\ jobState = JOB_STATE_PENDING
     /\ IngestIdle /\ CreateIdle /\ FlowIdle /\ NoArgs /\ NoSource
     /\ filePathArg \in {"absent", "/data/requests.jsonl"}
     /\ upPc = "start" /\ upNow = 0 /\ attempt = 0 /\ attemptsMade = 0
     /\ retryWaits = <<>> /\ lastError = 0 /\ upError = "none" /\ raisedAttempt = 0
     /\ remoteState = "none" /\ observedState = "none" /\ waitStart = 0 /\ getCalls = 0
     /\ uploadedFiles \in {{}, {"files/old"}}
     /\ fileObjects = uploadedFiles
     /\ SessionIdle /\ MultiIdle
  \/ /\ tool = "cleanup_all_files"
     /\ PollIdle /\ DownloadIdle /\ AdviceIdle /\ AnalyzeIdle /\ UploadIdle /\ CacheEmpty /\ NoDest
     /\ jobState = JOB_STATE_PENDING
     /\ IngestIdle /\ CreateIdle /\ FlowIdle /\ NoArgs /\ NoSource
     /\ remoteFiles \in SUBSET Uris
     /\ opsDone = 0 /\ cleanupPc = "idle" /\ pending = {}
     /\ deletedFiles = {} /\ failedDeletes = {}
     /\ MultiIdle
  \/ /\ tool = "upload_multiple_files"
     /\ PollIdle /\ DownloadIdle /\ AdviceIdle /\ AnalyzeIdle /\ UploadIdle /\ CacheEmpty /\ SessionIdle /\ NoDest
     /\ jobState = JOB_STATE_PENDING
     /\ IngestIdle /\ CreateIdle /\ FlowIdle /\ NoArgs /\ NoSource
     /\ filePathsLen \in 0..MaxFiles
     /\ maxConcurrentArg \in MaxConcurrentArgs
     /\ maxConcurrent = 0 /\ loopI = 0 /\ mPc = "start" /\ inFlight = {}
     /\ successful = <<>> /\ failed = <<>> /\ summary = NoSummary
  \/ /\ tool = "batch_process"
     /\ PollIdle /\ DownloadIdle /\ AdviceIdle /\ AnalyzeIdle /\ UploadIdle /\ CacheEmpty /\ SessionIdle /\ MultiIdle /\ NoDest /\ jobState = JOB_STATE_PENDING
     /\ IngestIdle /\ CreateIdle /\ FlowIdle /\ NoArgs
     /\ srcExt \in SourceExts /\ srcContent \in SourceContents /\ taskTypeArg = NoTaskType
  \/ /\ tool = "batch_process_embeddings"
     /\ PollIdle /\ DownloadIdle /\ AdviceIdle /\ AnalyzeIdle /\ UploadIdle /\ CacheEmpty /\ SessionIdle /\ MultiIdle /\ NoDest /\ jobState = JOB_STATE_PENDING
     /\ IngestIdle /\ CreateIdle /\ FlowIdle /\ NoArgs
     /\ srcExt \in SourceExts /\ srcContent \in SourceContents
     /\ taskTypeArg \in TaskTypeArgs \ {NoTaskType}

Next ==
  \/ RemoteAdvance
  \/ BatchCancel
  \/ PollStart
  \/ FetchResolve
  \/ FetchReject
  \/ SleepResolve
  \/ IngestConvert
  \/ EmbeddingIngestReject
  \/ EmbeddingIngestConvert
  \/ IngestValidate
  \/ ConvertReadReject
  \/ ValidateReadReject
  \/ ValidateFile
  \/ CreateReject
  \/ CreateSubmit
  \/ FlowStart
  \/ FlowConvertDone
  \/ FlowUploadDone
  \/ FlowSubmitDone
  \/ Download
  \/ QueryTaskType
  \/ Analyze
  \/ AnalyzeReadReject
  \/ UploadStart
  \/ AttemptResolve
  \/ AttemptReject
  \/ RetrySleepResolve
  \/ RemoteFileAdvance
  \/ WaitCheck
  \/ WaitSleepResolve
  \/ WaitGetResolve
  \/ WaitGetReject
  \/ SessionUpload
  \/ SessionList
  \/ SessionGet
  \/ SessionChat
  \/ SessionDelete
  \/ CleanupStart
  \/ CleanupDelete
  \/ CleanupReturn
  \/ MultiStart
  \/ MultiSettle
  \/ MultiGroupDone
  \/ MultiSleepResolve

Spec == Init /\ [][Next]_vars

(* Node's event loop settles every pending promise and fires every armed    *)
(* timer, and a dispatched call runs.                                       *)
FairSpec ==
  /\ Spec
  /\ WF_vars(PollStart)
  /\ WF_vars(FetchResolve)
  /\ WF_vars(SleepResolve)
  /\ WF_vars(MultiStart)
  /\ WF_vars(MultiSettle)
  /\ WF_vars(MultiGroupDone)
  /\ WF_vars(MultiSleepResolve)

-----------------------------------------------------------------------------
(* Status poller *)

RunningThenSucceeded ==
  /\ Len(fetched) >= 1
  /\ fetched[Len(fetched)] = JOB_STATE_SUCCEEDED
  /\ \A i \in 1..(Len(fetched) - 1) : fetched[i] = JOB_STATE_RUNNING

\* C1: when the status fetches returned RUNNING k times and then SUCCEEDED,
\* the poller has issued exactly k+1 fetches, has returned the job of fetch
\* k+1, and issues no fetch afterwards.
C1_ExactFetchCount ==
  /\ [](RunningThenSucceeded =>
         /\ pollPc = "returned"
         /\ pollResult = JOB_STATE_SUCCEEDED
         /\ fetchCalls = Len(fetched))
  /\ [][RunningThenSucceeded => (fetchCalls' = fetchCalls /\ pollPc' = pollPc)]_vars

C1_Witness ==
  /\ RunningThenSucceeded
  /\ Len(fetched) = 3
  /\ pollPc = "returned"
  /\ fetchCalls = 3

\* C2: with a job that never becomes terminal and fetches that never fail,
\* the poller eventually raises the polling timeout; the timeout is raised
\* only when more than maxWaitMs have elapsed since polling began, and it
\* carries no job.
C2_TimeoutAtDeadline ==
  /\ [](pollPc = "timeout" => (now - startTime > maxWaitMs /\ pollResult = NoJob))
  /\ ([](/\ tool = "batch_get_status"
         /\ jobState \in {JOB_STATE_PENDING, JOB_STATE_RUNNING}
         /\ pollPc # "fetchError")
        => <>(pollPc = "timeout"))

C2_Witness ==
  /\ pollPc = "timeout"
  /\ jobState = JOB_STATE_RUNNING
  /\ Len(fetched) >= 2
  /\ pollResult = NoJob

\* C3: the poller returns exactly on the first fetch that yields SUCCEEDED,
\* FAILED, CANCELLED or EXPIRED, returning that job; a fetch that yields
\* PENDING or RUNNING never ends the poll with a return.
C3_ReturnOnlyOnTerminal ==
  [][/\ (pollPc' = "returned" /\ pollPc # "returned") =>
          /\ fetched' # fetched
          /\ fetched'[Len(fetched')] \in
               {JOB_STATE_SUCCEEDED, JOB_STATE_FAILED, JOB_STATE_CANCELLED, JOB_STATE_EXPIRED}
          /\ pollResult' = fetched'[Len(fetched')]
     /\ (fetched' # fetched) =>
          (pollPc' = "returned" <=>
             fetched'[Len(fetched')] \in
               {JOB_STATE_SUCCEEDED, JOB_STATE_FAILED, JOB_STATE_CANCELLED, JOB_STATE_EXPIRED})
    ]_vars

C3_Witness ==
  /\ pollPc = "returned"
  /\ pollResult = JOB_STATE_CANCELLED
  /\ Len(fetched) >= 2
  /\ fetched[1] = JOB_STATE_PENDING


-----------------------------------------------------------------------------
(* Converter and validator *)

(* The line reported by an error of the last validation *)
ErrorLines == {validation.errors[j].line : j \in 1..Len(validation.errors)}

HasContents(line) ==
  /\ ~JSONparseThrows(line)
  /\ JSONparse(line).t = "obj"
  /\ Truthy(Prop(JSONparse(line), "request"))
  /\ Truthy(Prop(Prop(JSONparse(line), "request"), "contents"))

HasContent(line) ==
  /\ ~JSONparseThrows(line)
  /\ JSONparse(line).t = "obj"
  /\ Truthy(Prop(JSONparse(line), "request"))
  /\ Truthy(Prop(Prop(JSONparse(line), "request"), "content"))

\* C4: validateJSONL accepts a non-blank line exactly when it parses as JSON
\* and its request field holds contents (content schema) or content
\* (embedding schema); so a file of one content-schema line and one
\* embedding-schema line is valid.
C4_ValidatorAcceptsBothSchemas ==
  ingestPc = "validated" =>
    \A i \in 1..Len(NonBlankLines(outFile)) :
      (i \notin ErrorLines) <=>
        (HasContents(NonBlankLines(outFile)[i]) \/ HasContent(NonBlankLines(outFile)[i]))

(* jsonl sources are passed through: the claim covers those whose lines     *)
(* conform to the schema of the tool                                        *)
ConformantSource ==
  DetectFormat(srcExt) = "jsonl" =>
    \A i \in 1..Len(NonBlankLines(srcContent)) :
      IF tool = "batch_ingest_embeddings"
        THEN HasContent(NonBlankLines(srcContent)[i])
        ELSE HasContents(NonBlankLines(srcContent)[i])

\* C5: validating the file the converter has just written, for either target
\* schema, reports valid = true and a requestCount equal to the report's
\* totalRequests.
C5_RoundTrip ==
  (ingestPc = "validated" /\ ConformantSource) =>
    /\ validation.valid
    /\ validation.requestCount = report.totalRequests

(* Every record of the output file carries the task type the caller gave *)
TaskTypeOfCaller ==
  \A i \in 1..Len(NonBlankLines(outFile)) :
    LET line == NonBlankLines(outFile)[i] IN
      (line \notin SourceLines) =>
        Prop(Prop(JSONparse(line), "request"), "task_type") = JStr(Raw(taskTypeArg))

-----------------------------------------------------------------------------
(* Converter, format by format *)

(* The key and the request text of a content-schema record *)
KeyOf(line) == Prop(JSONparse(line), "key")

RequestTextOf(line) ==
  LET contents == Prop(Prop(JSONparse(line), "request"), "contents")
      parts == Prop(contents.items[1], "parts")
  IN Prop(parts.items[1], "text")

(* lines is exactly one content record per text, keyed request-1.. in order *)
IsRecordsOf(lines, texts) ==
  /\ Len(lines) = Len(texts)
  /\ \A i \in 1..Len(lines) :
       /\ ~JSONparseThrows(lines[i])
       /\ KeyOf(lines[i]) = JStr(RequestKey(i))
       /\ RequestTextOf(lines[i]) = JStr(texts[i])

(* A conversion of the content tool has just returned its report *)
Converted(format) ==
  /\ tool = "batch_ingest_content"
  /\ DetectFormat(srcExt) = format
  /\ ingestPc = "start"
  /\ ingestPc' = "converted"

(* The data rows of a CSV source: what follows its first non-blank line *)
CsvDataRows ==
  LET nb == NonBlankLines(srcContent) IN
    IF nb = <<>> THEN <<>> ELSE Tail(nb)

C12_JsonArrayOneRecordPerElement ==
  [][(Converted("json") /\ ~ContentParseThrows(srcContent) /\ report'.validationPassed) =>
       LET parsed == ContentParse(srcContent)
           written == NonBlankLines(outFile')
       IN IF parsed.t = "arr"
            THEN /\ report'.totalRequests = Len(parsed.items)
                 /\ IsRecordsOf(written,
                       [i \in 1..Len(parsed.items) |->
                          IF parsed.items[i].t = "str"
                            THEN parsed.items[i].s
                            ELSE JSONstringify(parsed.items[i])])
            ELSE /\ report'.totalRequests = 1
                 /\ Len(written) = 1
                 /\ KeyOf(written[1]) = JStr(RequestKey(1))]_vars

C12_Witness ==
  /\ tool = "batch_ingest_content"
  /\ srcExt = ".json"
  /\ srcContent = <<ArrayDocument>>
  /\ ingestPc = "converted"
  /\ report.totalRequests = 3
  /\ report.validationPassed
  /\ RequestTextOf(outFile[1]) = JStr(Raw("a"))
  /\ RequestTextOf(outFile[3]) = JStr(JSONstringify(JNum(7)))

\* C13: converting a source whose format is xml or unknown fails as
\* unsupported: the report has totalRequests = 0, validationPassed = false
\* and an unsupported-format error, and the output path is not written.
C13_UnsupportedFormat ==
  [][(Converted("xml") \/ Converted("unknown")) =>
       /\ report'.totalRequests = 0
       /\ report'.validationPassed = FALSE
       /\ report'.errors = <<"Unsupported format">>
       /\ outFile' = outFile]_vars

C13_Witness ==
  /\ tool = "batch_ingest_content"
  /\ srcExt = ".bin"
  /\ Len(NonBlankLines(srcContent)) = 2
  /\ ingestPc = "converted"
  /\ report.errors = <<"Unsupported format">>
  /\ outFile = PreExistingFile

\* C14: every conversion or validation failure (unsupported format,
\* unparseable JSON source, unreadable source file, failure to write the
\* output) reaches the caller as a report with validationPassed / valid =
\* false and at least one error message; neither the converter nor the
\* validator raises an exception.
C14_FailuresAreReports ==
  tool = "batch_ingest_content" =>
    /\ ingestPc \notin {"convertThrew", "validateThrew"}
    /\ (report # NoReport /\ ~report.validationPassed) => Len(report.errors) >= 1
    /\ (validation # NoReport /\ ~validation.valid) => Len(validation.errors) >= 1

(* Some step has changed the file at the output path *)
OutputWritten == outFile' # outFile

\* C15: conversion is all-or-nothing for the output file: the file is
\* written at most once, by the conversion step and with all the records; a
\* conversion that fails (unsupported format, source that does not parse)
\* reports validationPassed = false and leaves the output path as it was, a
\* pre-existing file included; a successful conversion leaves exactly the
\* converted records there and nothing of the previous content.
C15_AllOrNothing ==
  /\ [][(tool = "batch_ingest_content" /\ OutputWritten) =>
          /\ ingestPc = "start" /\ ingestPc' = "converted"
          /\ report'.validationPassed]_vars
  /\ [][(tool = "batch_ingest_content" /\ ingestPc = "start" /\ ingestPc' = "converted") =>
          /\ (\/ DetectFormat(srcExt) \in {"xml", "unknown"}
              \/ (DetectFormat(srcExt) = "json" /\ ContentParseThrows(srcContent)))
               => ~report'.validationPassed
          /\ IF report'.validationPassed
               THEN /\ Len(NonBlankLines(outFile')) = report'.totalRequests
                    /\ outFile' # NoFile
                    /\ \A i \in 1..Len(outFile') : \A j \in 1..Len(outFile) :
                         outFile'[i] # outFile[j]
               ELSE outFile' = outFile]_vars

C15_Witness ==
  /\ tool = "batch_ingest_content"
  /\ srcExt = ".json"
  /\ srcContent = <<ContentLine, Raw("b")>>
  /\ ingestPc = "converted"
  /\ ~report.validationPassed
  /\ report.errors = <<"Conversion error">>
  /\ outFile = PreExistingFile

-----------------------------------------------------------------------------
(* Validator *)

(* The errors of the last validation that cite line n *)
ErrorsCiting(n) == {j \in 1..Len(validation.errors) : validation.errors[j].line = n}

\* C16: the validator scans every non-blank line: each non-blank line that
\* does not parse as JSON or has neither schema field gets exactly one error,
\* which cites the 1-based number of that line in the file; valid is true
\* exactly when there is no error; requestCount is the number of non-blank
\* lines.
C16_ErrorsCiteFileLines ==
  ingestPc \in {"validated", "checked"} =>
    /\ \A n \in 1..Len(outFile) :
         (/\ ~TrimIsEmpty(outFile[n])
          /\ ~HasContents(outFile[n])
          /\ ~HasContent(outFile[n]))
           => Cardinality(ErrorsCiting(n)) = 1
    /\ validation.valid <=> (validation.errors = <<>>)
    /\ validation.requestCount = Len(NonBlankLines(outFile))

(* A record of the embedding schema: request.content plus task_type *)
IsEmbeddingRecord(line) ==
  /\ HasContent(line)
  /\ Truthy(Prop(Prop(JSONparse(line), "request"), "task_type"))

(* The file holds records of both schema variants *)
MixesSchemas(file) ==
  /\ \E i \in 1..Len(file) : HasContents(file[i]) /\ ~HasContent(file[i])
  /\ \E i \in 1..Len(file) : IsEmbeddingRecord(file[i]) /\ ~HasContents(file[i])

C27_KeysContiguous ==
  (/\ tool = "batch_ingest_content"
   /\ DetectFormat(srcExt) \in {"csv", "text"}
   /\ ingestPc \in {"converted", "validated", "validateThrew"}
   /\ report.validationPassed)
    => /\ Len(NonBlankLines(outFile)) = report.totalRequests
       /\ \A i \in 1..Len(NonBlankLines(outFile)) :
            KeyOf(NonBlankLines(outFile)[i]) = JStr(RequestKey(i))

C27_Witness ==
  /\ tool = "batch_ingest_content"
  /\ srcExt = ".txt"
  /\ srcContent = <<Raw("a"), Raw(" "), Raw("b")>>
  /\ ingestPc = "converted"
  /\ report.validationPassed
  /\ report.totalRequests = 2
  /\ KeyOf(outFile[2]) = JStr(RequestKey(2))

-----------------------------------------------------------------------------
(* Job submitter *)

\* C6: a submission, content or embedding, that supplies neither inline
\* requests nor a file handle, or that supplies both, is rejected with
\* InvalidParams and creates no job on the remote service.
C6_ExactlyOneSource ==
  (/\ tool \in {"batch_create", "batch_create_embeddings"}
   /\ createPc # "start"
   /\ (requestsArg # "absent") = (fileArg # "absent"))
    => (createPc = "invalidParams" /\ sent = NoEnvelope /\ jobsCreated = 0)

\* C8: the envelope follows the job kind: a content job carries src as the
\* plain file handle string in file mode and a top-level requests array in
\* inline mode; an embedding job carries src as an object wrapping the file
\* handle or the inlined requests; the two are never interchanged.
C8_EnvelopeByKind ==
  (tool \in {"batch_create", "batch_create_embeddings"} /\ sent # NoEnvelope) =>
    IF tool = "batch_create"
      THEN /\ sent.method = "batches.create"
           /\ IF requestsArg = "absent"
                THEN sent.src = "file handle string" /\ sent.requests = "absent"
                ELSE sent.src = "absent" /\ sent.requests = "requests array"
      ELSE /\ sent.method = "batches.createEmbeddings"
           /\ sent.requests = "absent"
           /\ IF requestsArg = "absent"
                THEN sent.src = "object {fileName}"
                ELSE sent.src = "object {inlinedRequests}"

-----------------------------------------------------------------------------
(* Workflow orchestrator *)

\* C9: a one-call workflow returns only after it has run, in this order,
\* convert (unless the source is jsonl), upload, submit, poll and download.
C9_WorkflowRunsToDownload ==
  (tool \in {"batch_process", "batch_process_embeddings"} /\ flowPc = "returned") =>
    stagesRun = (IF DetectFormat(srcExt) = "jsonl" THEN <<>> ELSE <<"convert">>)
                  \o <<"upload", "submit", "poll", "download">>

-----------------------------------------------------------------------------
(* Result downloader *)

OnlyInlinedResponses ==
  /\ dest.inlinedResponses.present
  /\ ~dest.fileName.present
  /\ ~dest.inlinedEmbedContentResponses.present

(* The result list is as long as inlinedResponses, an entry with an error   *)
(* and no response maps to {error}, and the list is the JSON array file     *)
InlineListAndFile ==
  LET entries == dest.inlinedResponses.v IN
    /\ Len(results.items) = Len(entries)
    /\ \A i \in 1..Len(entries) :
         (~Truthy(Prop(entries[i], "response")) /\ Truthy(Prop(entries[i], "error")))
           => results.items[i] = JObj([error |-> Prop(entries[i], "error")])
    /\ resultsFile = [ext |-> ".json", content |-> <<JSONstringify(JArr(results.items))>>]

\* C18 (as stated): with only inlinedResponses populated the downloader
\* returns a list of the same length and order, every entry carrying a
\* response mapped to its text payload and every entry carrying an error to
\* {error}, and writes that list as one JSON array file.
C18_InlineUnwrapsText ==
  (tool = "batch_download_results" /\ OnlyInlinedResponses /\ downloadPc = "returned") =>
    /\ InlineListAndFile
    /\ \A i \in 1..Len(dest.inlinedResponses.v) :
         Truthy(Prop(dest.inlinedResponses.v[i], "response"))
           => results.items[i] = Prop(Prop(dest.inlinedResponses.v[i], "response"), "text")

\* C18 (amended): as above, except that an entry carrying a response maps to
\* its text payload when the response has a non-empty text, and to the
\* response object itself otherwise.
C18_InlineUnwrapsTextOrResponse ==
  (tool = "batch_download_results" /\ OnlyInlinedResponses /\ downloadPc = "returned") =>
    /\ InlineListAndFile
    /\ \A i \in 1..Len(dest.inlinedResponses.v) :
         LET response == Prop(dest.inlinedResponses.v[i], "response") IN
           Truthy(response) =>
             results.items[i] = (IF Prop(response, "text") \in {JUndefined, JStr(Raw(""))}
                             THEN response
                             ELSE Prop(response, "text"))

C18_Witness ==
  /\ tool = "batch_download_results"
  /\ OnlyInlinedResponses
  /\ dest.inlinedResponses.v = <<ResponseWithText, ResponseWithError>>
  /\ downloadPc = "returned"
  /\ results.items = <<JStr(Raw("hi")), JObj([error |-> JObj([code |-> JNum(3)])])>>
  /\ resultsFile.ext = ".json"

FileDestination ==
  /\ ~dest.inlinedResponses.present
  /\ dest.fileName.present

\* C19: with only a file destination the downloader returns one parsed
\* result per non-blank line of the fetched content, in file order, and
\* persists the fetched content unmodified; if a non-blank line does not
\* parse as JSON the download fails with an error, returns no result list
\* and persists nothing.
C19_FileResultsAllOrNothing ==
  (tool = "batch_download_results" /\ FileDestination /\ downloadPc # "start") =>
    LET lines == NonBlankLines(remoteFile) IN
      /\ downloadPc = "returned" =>
           /\ Len(results.items) = Len(lines)
           /\ \A i \in 1..Len(lines) : results.items[i] = JSONparse(lines[i])
           /\ resultsFile = [ext |-> ".jsonl", content |-> remoteFile]
      /\ (\E i \in 1..Len(lines) : JSONparseThrows(lines[i])) =>
           /\ downloadPc \in {"threw: invalid JSON", "threw: download failed"}
           /\ results = NoResults
           /\ resultsFile = NoResultsFile

C19_Witness ==
  /\ tool = "batch_download_results"
  /\ FileDestination
  /\ remoteFile = <<ContentLine, Raw(""), NullLine>>
  /\ downloadPc = "returned"
  /\ Len(results.items) = 2
  /\ resultsFile.content = remoteFile

\* C20: a download from a job whose destination has neither an inline
\* result list nor a result file fails with the no-results error and writes
\* no file; a download from a terminal job, content or embedding, that has
\* one of its destination shapes populated never fails with that error.
C20_NoResultsOnlyWhenEmpty ==
  (tool = "batch_download_results" /\ downloadPc # "start") =>
    IF \/ dest.inlinedResponses.present
       \/ dest.inlinedEmbedContentResponses.present
       \/ dest.fileName.present
      THEN downloadPc # "threw: No results found in batch job"
      ELSE /\ downloadPc = "threw: No results found in batch job"
           /\ results = NoResults
           /\ resultsFile = NoResultsFile

-----------------------------------------------------------------------------
(* Status poller: cancellation, fetch errors, order of the two tests *)

(* The step is a status fetch that resolved with a job *)
FetchReturned == fetched' # fetched

LastFetched == fetched[Len(fetched)]

\* C21: when a cancel request is issued while the poll loop is in flight and
\* the remote service moves the job to CANCELLED, the first status fetch
\* after the transition returns the CANCELLED job; the cancel request itself
\* changes nothing of the loop, which goes on sleeping and fetching until a
\* fetch shows a terminal state or the deadline has passed.
C21_CancelObservedOnNextFetch ==
  /\ [][(FetchReturned /\ jobState = JOB_STATE_CANCELLED) =>
          /\ pollPc' = "returned"
          /\ pollResult' = JOB_STATE_CANCELLED]_vars
  /\ [][(cancelRequested' # cancelRequested) =>
          UNCHANGED <<pollPc, now, startTime, intervalSeconds, maxWaitMs,
                      fetchCalls, fetched, pollResult>>]_vars
  /\ [][(cancelRequested /\ pollPc \in {"fetching", "sleeping"} /\ pollPc' \in {"returned", "timeout"}) =>
          /\ FetchReturned
          /\ \/ fetched'[Len(fetched')] \in
                  {JOB_STATE_SUCCEEDED, JOB_STATE_FAILED, JOB_STATE_CANCELLED, JOB_STATE_EXPIRED}
             \/ now' - startTime > maxWaitMs]_vars

C21_Witness ==
  /\ cancelRequested
  /\ pollPc = "returned"
  /\ pollResult = JOB_STATE_CANCELLED
  /\ Len(fetched) = 3
  /\ fetched[2] = JOB_STATE_RUNNING

\* C22: a status fetch that fails ends the poll at once with the error: it
\* is not retried, no sleep and no fetch follows; and every sleep between
\* two fetches is requested for the interval the caller supplied, which
\* never changes during the poll.
C22_FetchErrorEndsPoll ==
  /\ [][(pollPc = "fetching" /\ pollPc' # "fetching" /\ ~FetchReturned) =>
          pollPc' = "fetchError"]_vars
  /\ [][pollPc = "fetchError" =>
          UNCHANGED <<pollPc, fetchCalls, fetched, pollResult, now>>]_vars
  /\ [][pollPc # "idle" => intervalSeconds' = intervalSeconds]_vars
  /\ [][(pollPc = "sleeping" /\ pollPc' = "fetching") =>
          /\ now' - now >= intervalSeconds * 1000
          /\ now' - now <= intervalSeconds * 1000 + MaxJitterSteps * TimeStepMs]_vars

C22_Witness ==
  /\ pollPc = "fetchError"
  /\ Len(fetched) = 2
  /\ fetchCalls = 3
  /\ pollResult = NoJob

\* C29: the terminal-state test comes before the deadline test: a fetch that
\* resolves after the deadline with a terminal state returns the job and
\* raises no timeout; a timeout is raised only when the latest fetch showed
\* a non-terminal state; at least one fetch is made even with a zero
\* deadline.
C29_TerminalBeforeDeadline ==
  /\ [][(FetchReturned
          /\ fetched'[Len(fetched')] \in
                {JOB_STATE_SUCCEEDED, JOB_STATE_FAILED, JOB_STATE_CANCELLED, JOB_STATE_EXPIRED}
          /\ now' - startTime > maxWaitMs) =>
          (pollPc' = "returned" /\ pollResult' = fetched'[Len(fetched')])]_vars
  /\ [](pollPc = "timeout" =>
          /\ fetched # <<>>
          /\ LastFetched \in {JOB_STATE_PENDING, JOB_STATE_RUNNING})
  /\ [](pollPc \in {"returned", "timeout"} => (fetchCalls >= 1 /\ Len(fetched) >= 1))

C29_Witness ==
  /\ pollPc = "returned"
  /\ maxWaitMs = 0
  /\ now - startTime > maxWaitMs
  /\ Len(fetched) = 2
  /\ pollResult = JOB_STATE_SUCCEEDED

-----------------------------------------------------------------------------
(* Task-type advisor *)

(* The context, read without regard to case, holds a word with the stem *)
Mentions(stem) == \E w \in context : w.stem = stem

-----------------------------------------------------------------------------
(* Format detector *)

(* The format the extension stands for, letter case apart *)
FormatOfExtension ==
  IF srcExt \in {".jsonl", ".ndjson"} THEN "jsonl"
  ELSE IF srcExt \in {".json", ".JSON"} THEN "json"
  ELSE IF srcExt \in {".csv", ".Csv"} THEN "csv"
  ELSE IF srcExt \in {".txt", ".md"} THEN "text"
  ELSE IF srcExt = ".xml" THEN "xml"
  ELSE "unknown"

Returned(d) == d.format # "threw: I/O error"

UploadReturned == upPc \in {"waitCheck", "waitSleep", "waitGet", "success"} \/ upError \in {"timeout", "failed"}

\* C24: uploadFileWithRetry makes at most RETRY_ATTEMPTS (3) upload attempts,
\* makes no attempt after the first one that succeeds, waits RETRY_DELAY_MS
\* times the attempt number between a failed attempt and the next one, does
\* not wait after the last attempt, and when all attempts fail raises the
\* error of the last attempt.
C24_RetryAtMostThreeTimes ==
  /\ [](tool = "upload_file" =>
          /\ attemptsMade <= RETRY_ATTEMPTS
          /\ UploadReturned => attemptsMade = lastError + 1
          /\ \A i \in 1..Len(retryWaits) : retryWaits[i] = RETRY_DELAY_MS * i
          /\ attemptsMade > 0 =>
               Len(retryWaits) = (IF upPc = "retrySleep" THEN attemptsMade ELSE attemptsMade - 1)
          /\ Len(retryWaits) <= RETRY_ATTEMPTS - 1
          /\ upError = "upload" =>
               /\ attemptsMade = RETRY_ATTEMPTS
               /\ raisedAttempt = RETRY_ATTEMPTS)
  /\ [][(tool = "upload_file" /\ attemptsMade' = attemptsMade + 1 /\ attemptsMade > 0)
          => /\ lastError = attemptsMade
             /\ upNow' - upNow >= RETRY_DELAY_MS * attemptsMade]_vars
  /\ [][(tool = "upload_file" /\ UploadReturned) => attemptsMade' = attemptsMade]_vars

C24_Witness ==
  /\ tool = "upload_file"
  /\ upError = "upload"
  /\ attemptsMade = 3
  /\ retryWaits = <<2000, 4000>>
  /\ raisedAttempt = 3

\* C25: upload_file reports success only for a file seen out of PROCESSING
\* and not FAILED; while the file stays PROCESSING it is checked again after
\* each PROCESSING_CHECK_INTERVAL_MS; a failed status check does not end the
\* wait; a file seen FAILED, or still PROCESSING once more than
\* MAX_PROCESSING_WAIT_MS have passed, gives an error result; an error result
\* leaves the file out of both caches.
C25_SuccessOnlyWhenProcessed ==
  /\ [](tool = "upload_file" =>
          /\ upPc = "success" =>
               /\ observedState \notin {"PROCESSING", "FAILED", "none"}
               /\ UploadedUri \in uploadedFiles
               /\ UploadedUri \in fileObjects
          /\ upPc \in {"error", "invalidParams"} =>
               /\ UploadedUri \notin uploadedFiles
               /\ UploadedUri \notin fileObjects)
  /\ [][(tool = "upload_file" /\ upPc = "waitCheck" /\ upPc' # upPc) =>
          /\ observedState = "FAILED" => (upPc' = "error" /\ upError' = "failed")
          /\ (observedState = "PROCESSING" /\ upNow - waitStart > MAX_PROCESSING_WAIT_MS)
               => (upPc' = "error" /\ upError' = "timeout")
          /\ (observedState = "PROCESSING" /\ upNow - waitStart <= MAX_PROCESSING_WAIT_MS)
               => upPc' = "waitSleep"]_vars
  /\ [][(tool = "upload_file" /\ upPc = "waitSleep" /\ upPc' # upPc) =>
          /\ upPc' = "waitGet"
          /\ getCalls' = getCalls + 1
          /\ upNow' - upNow >= PROCESSING_CHECK_INTERVAL_MS
          /\ upNow' - upNow <= PROCESSING_CHECK_INTERVAL_MS + MaxJitterSteps * TimeStepMs]_vars
  /\ [][(tool = "upload_file" /\ upPc = "waitGet" /\ upPc' # upPc) =>
          /\ upPc' = "waitCheck"
          /\ upError' = "none"]_vars

C25_Witness ==
  /\ tool = "upload_file"
  /\ upPc = "error"
  /\ upError = "timeout"
  /\ observedState = "PROCESSING"
  /\ remoteState = "ACTIVE"
  /\ UploadedUri \notin fileObjects

\* C26: once cleanup_all_files has returned with every remote deletion
\* having succeeded, uploadedFiles and fileObjects are both empty, whatever
\* uploads, lists, gets, chats and deletes came before.
C26_CleanupEmptiesBothCaches ==
  (tool = "cleanup_all_files" /\ cleanupPc = "done" /\ failedDeletes = {})
    => (uploadedFiles = {} /\ fileObjects = {})

\* Every path of the request is on exactly one of the two result lists, once
EveryPathReportedOnce ==
  \A p \in 1..filePathsLen :
    Cardinality({k \in 1..Len(successful) : successful[k] = p})
      + Cardinality({k \in 1..Len(failed) : failed[k] = p}) = 1

\* C30: upload_multiple_files terminates for every non-empty filePaths and
\* every numeric maxConcurrent, below 1 and above 10 included; for a
\* maxConcurrent of 1 or more it never has more than min(maxConcurrent, 10)
\* uploads in flight; it starts a group only when every upload of the group
\* before has settled; the summary it returns reports every requested path
\* exactly once, so that successfulUploads + failedUploads = totalRequested.
C30_TerminatesReportingEveryPath ==
  /\ [](tool = "upload_multiple_files" =>
          /\ maxConcurrentArg >= 1 =>
               Cardinality(inFlight) <= MathMin(maxConcurrentArg, MaxConcurrentCap)
          /\ mPc = "done" =>
               /\ EveryPathReportedOnce
               /\ summary.totalRequested = filePathsLen
               /\ summary.successfulUploads + summary.failedUploads = summary.totalRequested)
  /\ [][(tool = "upload_multiple_files" /\ ~(inFlight' \subseteq inFlight)) => inFlight = {}]_vars
  /\ ((tool = "upload_multiple_files" /\ filePathsLen > 0) ~> mPc = "done")

====
